---- MODULE Spec2Model ----
(***************************************************************************)
(* Model of the BrickLayers job pipeline: the in-memory job registry and   *)
(* its status field (app/services/processing_service.py), the bounded      *)
(* thread pool that runs _run_processing, the timeout supervisor           *)
(* process_with_timeout, cancel_job, the download handler                  *)
(* (app/routers/jobs.py) and the retention sweeper                         *)
(* (app/services/cleanup_service.py).                                      *)
(*                                                                         *)
(* The registry is a plain dict of mutable dataclass records shared by the *)
(* HTTP threads, the background-task threads and the pool's worker threads *)
(* without any lock, so each thread is modelled by its position in the     *)
(* code and every read-then-write gap of the source is a separate step.    *)
(* Labels of positions are source line numbers ("L157" is line 157 of the  *)
(* file the thread runs).                                                  *)
(***************************************************************************)
EXTENDS Integers, Sequences, FiniteSets, TLC

\* ---- bounds of the model ------------------------------------------------
NumJobs == 2
MaxLines == 2
MaxCancels == 2
\* Longest filename of an upload request, in characters of NameChars.
MaxNameLen == 3
MaxEntries == 2
\* Number of threads start_background may create.
MaxThreads == 4
NumRequests == 2

\* ---- settings (app/config/settings.py) ----------------------------------
\* MAX_CONCURRENT_JOBS is a setting read from the environment (default 5);
\* the model runs the pool with one thread so that a second job has to queue.
MAX_CONCURRENT_JOBS == 1
PROCESSING_TIMEOUT == 900
\* line_count % 1000 == 0 (processing_service.py line 199)
CHECK_EVERY == 1000
FILE_RETENTION_HOURS == 24

\* MAX_UPLOAD_SIZE is a setting read from the environment (default 50 MiB;
\* the tests run with 1 KiB).  The model counts bytes in small numbers: the
\* limit and the chunk of the capture loop (8 KiB) are scaled down together.
MAX_UPLOAD_SIZE == 5
\* max_length of sanitize_filename (100 characters), scaled down.
MaxStemLen == 2
CHUNK_SIZE == 2
\* The head chunk kept for validate_gcode_content (2048 bytes), scaled down.
HEAD_SIZE == 3
\* The length of str(uuid.uuid4()) (36 characters), scaled down.
UuidLen == 2

JobIds == 1..NumJobs

\* ---- values -------------------------------------------------------------
None == <<>>
\* The sweeper is between two files; otherwise k_pc is <<directory, job id>>,
\* the file it has examined and is about to unlink.
SweeperIdle == <<"idle", 0>>
MsgCancelled == <<"Cancelled by user">>
MsgCancelledDuring == <<"Cancelled by user during processing">>
MsgProcessorError == <<"str(e)">>
TimeoutMessage(limit) == <<"Processing timed out after", limit, "seconds">>

TerminalStatuses == {"completed", "failed", "timeout", "cancelled"}

\* The transition table of the state machine (spec section 4.3).
TransitionTable ==
    { <<"pending", "processing">>, <<"pending", "cancelled">>,
      <<"processing", "completed">>, <<"processing", "cancelling">>,
      <<"processing", "failed">>, <<"processing", "timeout">>,
      <<"cancelling", "cancelled">> }

VARIABLES
    jobs,        \* ProcessingService._jobs: job id -> ProcessingJob record
    uploads,     \* UPLOAD_DIR: job id -> "absent" | "partial" (being written) | "present"
    outputs,     \* OUTPUT_DIR: job id -> "absent" | "present"
    queue,       \* work queue of the ThreadPoolExecutor (FIFO of job ids)
    w_pc,        \* position of the pool thread running _run_processing(job)
    line_count,  \* enumerate() counter of the processing loop
    s_pc,        \* position of the background task process_with_timeout(job)
    c_job,       \* job id of the cancel request being served (0: none yet)
    c_pc,        \* position of that request inside cancel_job
    c_result,    \* value returned by cancel_job for that request
    c_status,    \* HTTP status answered to that request (0: not answered yet)
    c_count,     \* number of cancel requests made so far
    d_job,       \* job id of the download request being served (0: none yet)
    d_pc,        \* position of that request in download_processed_file
    d_status,    \* HTTP status answered to that request
    k_pc,        \* position of the sweeper thread inside run_once
    u_req,       \* the upload request being served
    u_resp,      \* the response of upload_file to it (None: not answered)
    tree,        \* a directory listing for one pass of the sweeper
    deleted_counts,  \* what that pass returned (None: it has not run)
    retention,   \* the sweeper's self._retention, in hours
    clock,       \* the last value datetime.now() has returned
    t_pc,        \* position of each thread that writes a status, statement by statement
    t_now,       \* the datetime.now() each such thread has evaluated and not yet stored
    rq,          \* the HTTP requests passing through RequestLoggingMiddleware
    request_id_var,  \* the ContextVar request_id_var, per context
    uuid_count,  \* number of uuid4() values drawn by the middleware
    upload_path, \* what get_upload_path returned for the request (None: not called)
    handler,     \* the upload_file coroutines, step by step: job id -> position, bytes written, response
    cleanup,     \* the CleanupService: _thread, _stop_event, its caller and the threads it started
    processing_jobs_active, \* the gauge processing_jobs_active of app/metrics.py
    capture,     \* what capturing the byte stream of the request gave (None: not done)
    job_paths,   \* what register_job derived for each job: filename, upload and output path
    outfile      \* the text in each job's output file: unopened, open for writing, whole or partial

vars == <<jobs, uploads, outputs, queue, w_pc, line_count, s_pc,
          c_job, c_pc, c_result, c_status, c_count, d_job, d_pc, d_status,
          k_pc, u_req, u_resp, tree, deleted_counts, retention,
          clock, t_pc, t_now, rq, request_id_var, uuid_count, upload_path, handler,
          cleanup, processing_jobs_active, capture, job_paths, outfile>>

fileVars == <<uploads, outputs>>
workerVars == <<queue, w_pc, line_count>>
cancelVars == <<c_job, c_pc, c_result, c_status, c_count>>
downloadVars == <<d_job, d_pc, d_status>>
stampVars == <<clock, t_pc, t_now>>
requestVars == <<rq, request_id_var, uuid_count>>
extraVars == <<cleanup, processing_jobs_active, capture, job_paths, outfile>>
sideVars == <<k_pc, u_req, u_resp, tree, deleted_counts, retention, stampVars, requestVars, upload_path, handler, extraVars>>

\* ---- the registry -------------------------------------------------------
\* ProcessingJob: the fields that change after construction, plus created_at.
\* Timestamps are logical: every datetime.now() written to updated_at is
\* later than the value it replaces.
ProcessingJob ==
    [ status |-> "pending", created_at |-> 0, updated_at |-> 0,
      error |-> None, cancel_requested |-> FALSE ]

registered == DOMAIN jobs

get_job(j) == IF j \in registered THEN jobs[j] ELSE None

\* A status write that also clears the cancellation flag.
SetStatusResetFlag(j, s, e) ==
    jobs' = [jobs EXCEPT ![j] = [@ EXCEPT !.status = s,
                                          !.updated_at = @ + 1,
                                          !.error = e,
                                          !.cancel_requested = FALSE]]

\* job.status = s; job.updated_at = datetime.now(); job.error = e
SetStatus(j, s, e) ==
    jobs' = [jobs EXCEPT ![j] = [@ EXCEPT !.status = s,
                                          !.updated_at = @ + 1,
                                          !.error = e]]

\* job.status = s; job.updated_at = datetime.now()
SetStatusKeepError(j, s) ==
    jobs' = [jobs EXCEPT ![j] = [@ EXCEPT !.status = s,
                                          !.updated_at = @ + 1]]

\* The threads that write a job's status: the pool worker (_run_processing),
\* the thread serving POST /cancel (cancel_job) and the thread running the
\* background task (process_with_timeout).
StampThreads == {"worker", "cancel", "supervisor"}

\* The requests that pass through the middleware.
RequestIds == 1..NumRequests

\* A request that has not arrived.
\* The threads a CleanupService may start.
SweeperThreads == 1..MaxThreads

\* CleanupService.__init__ (lines 24-29): no thread, the event not set.
NoCleanup ==
    [thread |-> 0, stop_event |-> FALSE, caller |-> "idle",
     threads |-> [t \in SweeperThreads |-> "unstarted"]]

\* An upload_file coroutine that has not been started.
NoHandler == [pc |-> "idle", written |-> 0, resp |-> None]

NoRequest ==
    [pc |-> "idle", kind |-> "none", inbound |-> "absent", request_id |-> "none",
     seen |-> "none", code |-> 0, header |-> "absent"]

\* The state after construction, but for the inputs u_req and tree.
Idle ==
    /\ clock = 0
    /\ t_pc = [t \in StampThreads |-> "idle"]
    /\ t_now = [t \in StampThreads |-> 0]
    /\ rq = [r \in RequestIds |-> NoRequest]
    /\ request_id_var = [r \in RequestIds |-> "none"]
    /\ uuid_count = 0
    /\ upload_path = None
    /\ handler = [j \in JobIds |-> NoHandler]
    /\ cleanup = NoCleanup
    /\ processing_jobs_active = 0
    /\ capture = None
    /\ job_paths = [j \in JobIds |-> None]
    /\ outfile = [j \in JobIds |-> "unopened"]
    /\ jobs = <<>>
    /\ uploads = [j \in JobIds |-> "absent"]
    /\ outputs = [j \in JobIds |-> "absent"]
    /\ queue = <<>>
    /\ w_pc = [j \in JobIds |-> "idle"]
    /\ line_count = [j \in JobIds |-> 0]
    /\ s_pc = [j \in JobIds |-> "idle"]
    /\ c_job = 0
    /\ c_pc = "idle"
    /\ c_result = FALSE
    /\ c_status = 0
    /\ c_count = 0
    /\ d_job = 0
    /\ d_pc = "idle"
    /\ d_status = 0
    /\ k_pc = SweeperIdle
    /\ u_resp = None
    /\ deleted_counts = None

\* The body of an error response written by the handlers.
ProblemDetails(title, code, detail) ==
    [type |-> "about:blank", title |-> title, status |-> code, detail |-> detail]

\* ---- upload requests ----------------------------------------------------
\* A filename is a sequence of characters; "gcode", "GCODE" and "txt" stand
\* for runs of letters, "NUL" for the null byte.
NameChars == {"gcode", "GCODE", "txt", ".", "$", "/", "\\", "NUL"}

Names == UNION {[1..n -> NameChars] : n \in 0..MaxNameLen}

\* The patterns validate_gcode_content looks for (lines 104-111).
GcodePatterns == {"G", "M", "X", "Y", "Z", ";"}

\* An upload request: the filename, the length of the byte stream, the
\* patterns that occur in its head chunk, and the two form
\* fields (the multiplier in hundredths).
Requests ==
    { r \in [ filename : Names,
              length : {0, 1, MAX_UPLOAD_SIZE, MAX_UPLOAD_SIZE + 1,
                        MAX_UPLOAD_SIZE + CHUNK_SIZE + 1},
              patterns : {{}, {"G", "X"}, {"G", "X", ";"}},
              start_at_layer : {-1, 0},
              extrusion_multiplier : {99, 100, 120, 121} ] :
        r.length = 0 => r.patterns = {} }

\* The request of the jobs that run through the pipeline.
ValidRequest ==
    [ filename |-> <<"txt", ".", "gcode">>, length |-> 1,
      patterns |-> {"G", "X", ";"},
      start_at_layer |-> 0, extrusion_multiplier |-> 100 ]

Init ==
    /\ Idle
    /\ u_req = ValidRequest
    /\ tree = None
    /\ retention = FILE_RETENTION_HOURS

\* ---- FileService (app/services/file_service.py) --------------------------
\* ".." in filename or "/" in filename or "\\" in filename (line 75)
HasPathCharacters(name) ==
    \/ \E i \in 1..(Len(name) - 1) : name[i] = "." /\ name[i + 1] = "."
    \/ \E i \in 1..Len(name) : name[i] \in {"/", "\\"}

\* The characters the pattern ^[\w\s.-]+$ accepts (line 83).
AllowedNameChars == {"gcode", "GCODE", "txt", ".", "-", "_", " "}

\* validate_filename: the message of the FileValidationError it raises, or
\* "ok".
validate_filename(name) ==
    IF name = <<>> THEN "Filename is empty"
    ELSE IF HasPathCharacters(name) THEN "Filename contains invalid path characters"
    ELSE IF \E i \in 1..Len(name) : name[i] = "NUL" THEN "Filename contains null bytes"
    ELSE IF \E i \in 1..Len(name) : name[i] \notin AllowedNameChars
      THEN "Filename contains invalid characters"
    ELSE "ok"

\* Path(filename).suffix for a filename without a path separator: the part
\* from the last dot on, empty when there is no dot or the last dot is the
\* first or the last character.
Suffix(name) ==
    LET dots == {i \in 1..Len(name) : name[i] = "."}
    IN  IF dots = {} THEN <<>>
        ELSE LET i == CHOOSE d \in dots : \A e \in dots : e <= d
             IN  IF i > 1 /\ i < Len(name) THEN SubSeq(name, i, Len(name)) ELSE <<>>

\* str.lower()
Lower(name) == [i \in DOMAIN name |-> IF name[i] = "GCODE" THEN "gcode" ELSE name[i]]

\* settings.ALLOWED_EXTENSIONS
ALLOWED_EXTENSIONS == {<<".", "gcode">>, <<".", "gco">>, <<".", "g">>}

validate_file_extension(name) ==
    LET file_ext == Lower(Suffix(name))
    IN  IF file_ext = <<>> THEN "File has no extension"
        ELSE IF file_ext \notin ALLOWED_EXTENSIONS THEN "File extension not allowed"
        ELSE "ok"

\* Path(filename).name for a filename without a path separator: the name
\* itself, but "." is the current directory and has no name.
PathName(name) == IF name = <<".">> THEN <<>> ELSE name

\* Path(filename).stem for such a filename: what is left of the suffix.
Stem(name) == SubSeq(name, 1, Len(name) - Len(Suffix(name)))

\* re.sub(r"[^\w.-]", "_", name)
ReplaceUnsafe(name) ==
    [i \in DOMAIN name |->
        IF name[i] \in {"gcode", "GCODE", "txt", "_", ".", "-"} THEN name[i] ELSE "_"]

\* re.sub(r"_+", "_", name)
RECURSIVE CollapseUnderscores(_)
CollapseUnderscores(name) ==
    IF Len(name) < 2 THEN name
    ELSE IF name[1] = "_" /\ name[2] = "_" THEN CollapseUnderscores(Tail(name))
    ELSE <<name[1]>> \o CollapseUnderscores(Tail(name))

\* name.strip("_")
RECURSIVE StripUnderscores(_)
StripUnderscores(name) ==
    IF name = <<>> THEN name
    ELSE IF name[1] = "_" THEN StripUnderscores(Tail(name))
    ELSE IF name[Len(name)] = "_" THEN StripUnderscores(SubSeq(name, 1, Len(name) - 1))
    ELSE name

\* name[:max_length]
Truncate(name) == IF Len(name) > MaxStemLen THEN SubSeq(name, 1, MaxStemLen) ELSE name

\* sanitize_filename, lines 130-148: the stem is cleaned and cut, the suffix
\* is put back as it was.
sanitize_filename(filename) ==
    LET path == PathName(filename)
    IN  Truncate(StripUnderscores(CollapseUnderscores(ReplaceUnsafe(Stem(path)))))
          \o Suffix(path)

\* get_upload_path: UPLOAD_DIR / f"{job_id}_{safe_filename}"
get_upload_path(j, filename) ==
    [dir |-> "UPLOAD_DIR", job_id |-> j, safe_filename |-> sanitize_filename(filename)]

\* validate_gcode_content: at least 3 of the 6 patterns match the chunk.
validate_gcode_content(patterns) ==
    IF Cardinality(patterns \cap GcodePatterns) < 3
      THEN "File doesn't appear to contain valid G-code"
      ELSE "ok"

\* save_upload_streaming(job_id, filename, file, validate_size=True): the
\* capture loop.  It copies the stream chunk by chunk and keeps a running
\* byte count; when the count exceeds MAX_UPLOAD_SIZE it deletes the partial
\* file and raises FileTooLargeError; a stream of no bytes raises the
\* empty-file FileValidationError and leaves no file either.
RECURSIVE CaptureLoop(_, _)
CaptureLoop(remaining, running) ==
    IF remaining = 0
      THEN [error |-> IF running = 0 THEN "File is empty" ELSE "ok",
            size |-> running, stored |-> running > 0]
      ELSE LET chunk == IF remaining < CHUNK_SIZE THEN remaining ELSE CHUNK_SIZE
           IN  IF running + chunk > MAX_UPLOAD_SIZE
                 THEN [error |-> "exceeds maximum allowed size",
                       size |-> running + chunk, stored |-> FALSE]
                 ELSE CaptureLoop(remaining - chunk, running + chunk)

save_upload_streaming(req) == CaptureLoop(req.length, 0)

\* ---- POST /upload -------------------------------------------------------
\* The bounds of the form fields, start_at_layer: ge=0 and
\* extrusion_multiplier: ge=1.0, le=1.2 (upload.py lines 127-135).
RequestBinding(req) ==
    /\ req.start_at_layer >= 0
    /\ req.extrusion_multiplier >= 100
    /\ req.extrusion_multiplier <= 120

\* The answer of the framework to a request that fails the binding: 422
\* with its own body, a list of the fields that failed under "detail".
RequestValidationError(req) ==
    [code |-> 422,
     body |-> [detail |-> { f \in {"start_at_layer", "extrusion_multiplier"} :
                              IF f = "start_at_layer"
                                THEN req.start_at_layer < 0
                                ELSE req.extrusion_multiplier \notin 100..120 }]]

\* The except clauses with FileValidationError ahead of FileTooLargeError.
UploadErrorValidationFirst(exc, detail) ==
    [code |-> 400, body |-> ProblemDetails("Invalid file or parameters", 400, detail)]

\* The except clauses of upload_file, lines 201-216.
UploadError(exc, detail) ==
    IF exc = "FileTooLargeError"
      THEN [code |-> 413, body |-> ProblemDetails("File too large", 413, detail)]
      ELSE [code |-> 400, body |-> ProblemDetails("Invalid file or parameters", 400, detail)]

\* What upload_file does with request req for the job id j it has drawn:
\* the response, whether the job is registered and queued, and whether a
\* file is left at the job's upload path.  Lines 158-216 in their order.
UploadOutcome(j, req) ==
    LET rejected(resp, left) == [resp |-> resp, accepted |-> FALSE, stored |-> left]
        captured == save_upload_streaming(req)
    IN  IF ~RequestBinding(req)
          THEN rejected(RequestValidationError(req), FALSE)
        ELSE IF req.filename = <<>>
          THEN rejected(UploadError("FileValidationError", "No filename provided"), FALSE)
        ELSE IF validate_filename(req.filename) # "ok"
          THEN rejected(UploadError("FileValidationError",
                                    validate_filename(req.filename)), FALSE)
        ELSE IF validate_file_extension(req.filename) # "ok"
          THEN rejected(UploadError("FileValidationError",
                                    validate_file_extension(req.filename)), FALSE)
        ELSE IF captured.error = "exceeds maximum allowed size"
          THEN rejected(UploadError("FileTooLargeError", captured.error),
                        captured.stored)
        ELSE IF captured.error # "ok"
          THEN rejected(UploadError("FileValidationError", captured.error),
                        captured.stored)
        ELSE IF validate_gcode_content(req.patterns) # "ok"
          THEN rejected(UploadError("FileValidationError",
                                    validate_gcode_content(req.patterns)),
                        captured.stored)
        ELSE [resp |-> [code |-> 201,
                        body |-> [job_id |-> j, filename |-> req.filename,
                                  file_size |-> captured.size, status |-> "pending"]],
              accepted |-> TRUE, stored |-> captured.stored]

\* A register that inserts the job with the cancellation flag raised.
register_job_flagged(j) ==
    jobs' = (j :> [ProcessingJob EXCEPT !.cancel_requested = TRUE]) @@ jobs

register_job(j) ==
    jobs' = (j :> ProcessingJob) @@ jobs

\* queue_job: self._executor.submit(self._run_processing, job)
queue_job(j) == Append(queue, j)

\* upload_file serving the request u_req under job id j.  For an accepted
\* request the job is registered as pending and process_with_timeout is
\* started as a background task, which submits _run_processing to the pool
\* (line 278) and waits for the future (line 280).
upload_file(j) ==
    LET out == UploadOutcome(j, u_req)
    IN  /\ u_resp' = out.resp
        /\ uploads' = [uploads EXCEPT ![j] = IF out.stored THEN "present" ELSE "absent"]
        /\ IF out.accepted
             THEN /\ register_job(j)
                  /\ queue' = queue_job(j)
                  /\ w_pc' = [w_pc EXCEPT ![j] = "queued"]
                  /\ s_pc' = [s_pc EXCEPT ![j] = "L280"]
             ELSE UNCHANGED <<jobs, queue, w_pc, s_pc>>
        /\ UNCHANGED <<outputs, line_count, cancelVars, downloadVars,
                       k_pc, u_req, tree, deleted_counts, retention,
                       stampVars, requestVars, upload_path, handler, extraVars>>

\* Job ids are fresh uuids; the model hands them out in increasing order.
Upload(j) ==
    /\ j \notin registered
    /\ \A i \in JobIds : i < j => i \in registered
    /\ uploads[j] = "absent"
    /\ upload_file(j)

\* ---- process_with_timeout (background task, one per job) -----------------
FutureDone(j) == w_pc[j] \in {"done", "raised"}

\* future.result(timeout=...) returns (or re-raises the worker's exception):
\* the supervisor is finished.
SupervisorReturn(j) ==
    /\ s_pc[j] = "L280"
    /\ FutureDone(j)
    /\ s_pc' = [s_pc EXCEPT ![j] = "done"]
    /\ UNCHANGED <<sideVars, jobs, fileVars, workerVars, cancelVars, downloadVars>>

\* The jobs whose _run_processing call occupies a pool thread.
Running == {j \in JobIds : w_pc[j] \notin {"idle", "queued", "done", "raised"}}

\* A work item stays in the queue only while every pool thread is busy: an
\* idle pool thread takes it at once, long before a deadline of
\* PROCESSING_TIMEOUT seconds can pass.
TakenAtOnce(j) ==
    /\ w_pc[j] = "queued"
    /\ Cardinality(Running) < MAX_CONCURRENT_JOBS

\* future.result(timeout=...) raises TimeoutError: the deadline, counted from
\* the submission, passed while the future was not done (queued or running).
SupervisorDeadline(j) ==
    /\ s_pc[j] = "L280"
    /\ ~FutureDone(j)
    /\ ~TakenAtOnce(j)
    /\ s_pc' = [s_pc EXCEPT ![j] = "L283"]
    /\ UNCHANGED <<sideVars, jobs, fileVars, workerVars, cancelVars, downloadVars>>

\* The status the except-branch of process_with_timeout writes.
TimeoutStatus == "failed"

\* except concurrent.futures.TimeoutError: lines 283-287
SupervisorMark(j) ==
    /\ s_pc[j] = "L283"
    /\ SetStatus(j, TimeoutStatus, TimeoutMessage(PROCESSING_TIMEOUT))
    /\ s_pc' = [s_pc EXCEPT ![j] = "done"]
    /\ UNCHANGED <<sideVars, fileVars, workerVars, cancelVars, downloadVars>>

\* ---- the thread pool and _run_processing --------------------------------
\* A free pool thread takes the oldest work item.
\* A pool whose threads take the work item submitted last.
WorkerPickupNewest(j) ==
    /\ queue # <<>>
    /\ j = queue[Len(queue)]
    /\ Cardinality(Running) < MAX_CONCURRENT_JOBS
    /\ queue' = SubSeq(queue, 1, Len(queue) - 1)
    /\ w_pc' = [w_pc EXCEPT ![j] = "L157"]
    /\ UNCHANGED <<sideVars, jobs, fileVars, line_count, s_pc, cancelVars, downloadVars>>

WorkerPickup(j) ==
    /\ queue # <<>>
    /\ j = Head(queue)
    /\ Cardinality(Running) < MAX_CONCURRENT_JOBS
    /\ queue' = Tail(queue)
    /\ w_pc' = [w_pc EXCEPT ![j] = "L157"]
    /\ UNCHANGED <<sideVars, jobs, fileVars, line_count, s_pc, cancelVars, downloadVars>>

\* lines 157-158: job.status = "processing", whatever the status was
WorkerStart(j) ==
    /\ w_pc[j] = "L157"
    /\ SetStatusKeepError(j, "processing")
    /\ w_pc' = [w_pc EXCEPT ![j] = "L160"]
    /\ UNCHANGED <<sideVars, fileVars, queue, line_count, s_pc, cancelVars, downloadVars>>

\* line 160: job.upload_path.stat() is outside the try block; a missing
\* upload file ends the worker with FileNotFoundError and the status stays.
WorkerStatInput(j) ==
    /\ w_pc[j] = "L160"
    /\ w_pc' = [w_pc EXCEPT ![j] = IF uploads[j] = "absent" THEN "raised" ELSE "L194"]
    /\ UNCHANGED <<sideVars, jobs, fileVars, queue, line_count, s_pc, cancelVars, downloadVars>>

\* line 194: open the upload for reading (inside the try block)
WorkerOpenInput(j) ==
    /\ w_pc[j] = "L194"
    /\ w_pc' = [w_pc EXCEPT ![j] = IF uploads[j] = "absent" THEN "L249" ELSE "L196"]
    /\ UNCHANGED <<sideVars, jobs, fileVars, queue, line_count, s_pc, cancelVars, downloadVars>>

\* line 196: open the output for writing, which creates the file
WorkerOpenOutput(j) ==
    /\ w_pc[j] = "L196"
    /\ outputs' = [outputs EXCEPT ![j] = "present"]
    /\ w_pc' = [w_pc EXCEPT ![j] = "L197"]
    /\ UNCHANGED <<sideVars, jobs, uploads, queue, line_count, s_pc, cancelVars, downloadVars>>

\* The cancellation test of the loop body (line 199).
Checkpoint(j) == line_count[j] % CHECK_EVERY = 0 /\ jobs[j].cancel_requested

\* lines 197-216: one turn of the loop over processor.process_gcode(...).
\* The processor yields a line, ends its stream, or raises.
WorkerLoop(j) ==
    /\ w_pc[j] = "L197"
    /\ \E ev \in {"line", "end", "raise"} :
         \/ /\ ev = "line"
            /\ line_count[j] < MaxLines
            /\ IF Checkpoint(j)
                 THEN /\ w_pc' = [w_pc EXCEPT ![j] = "L200"]
                      /\ UNCHANGED <<outputs, line_count>>
                 ELSE /\ line_count' = [line_count EXCEPT ![j] = @ + 1]
                      /\ UNCHANGED <<outputs, w_pc>>
         \/ /\ ev = "end"
            /\ w_pc' = [w_pc EXCEPT ![j] = "L219"]
            /\ UNCHANGED <<outputs, line_count>>
         \/ /\ ev = "raise"
            /\ w_pc' = [w_pc EXCEPT ![j] = "L249"]
            /\ UNCHANGED <<outputs, line_count>>
    /\ UNCHANGED <<sideVars, jobs, uploads, queue, s_pc, cancelVars, downloadVars>>

\* lines 200-202: cancellation seen at a checkpoint
WorkerCancelMid(j) ==
    /\ w_pc[j] = "L200"
    /\ SetStatus(j, "cancelled", MsgCancelledDuring)
    /\ w_pc' = [w_pc EXCEPT ![j] = "L204"]
    /\ UNCHANGED <<sideVars, fileVars, queue, line_count, s_pc, cancelVars, downloadVars>>

\* lines 204-205 / 223-224: if job.output_path.exists(): unlink(); return
WorkerUnlink(j) ==
    /\ w_pc[j] \in {"L204", "L223"}
    /\ outputs' = [outputs EXCEPT ![j] = "absent"]
    /\ w_pc' = [w_pc EXCEPT ![j] = "done"]
    /\ UNCHANGED <<sideVars, jobs, uploads, queue, line_count, s_pc, cancelVars, downloadVars>>

\* line 219: the final test of cancel_requested
WorkerFinalCheck(j) ==
    /\ w_pc[j] = "L219"
    /\ w_pc' = [w_pc EXCEPT ![j] = IF jobs[j].cancel_requested THEN "L220" ELSE "L227"]
    /\ UNCHANGED <<sideVars, jobs, fileVars, queue, line_count, s_pc, cancelVars, downloadVars>>

\* lines 220-222
WorkerCancelFinal(j) ==
    /\ w_pc[j] = "L220"
    /\ SetStatus(j, "cancelled", MsgCancelled)
    /\ w_pc' = [w_pc EXCEPT ![j] = "L223"]
    /\ UNCHANGED <<sideVars, fileVars, queue, line_count, s_pc, cancelVars, downloadVars>>

\* lines 227-228
WorkerComplete(j) ==
    /\ w_pc[j] = "L227"
    /\ SetStatusKeepError(j, "completed")
    /\ w_pc' = [w_pc EXCEPT ![j] = "L229"]
    /\ UNCHANGED <<sideVars, fileVars, queue, line_count, s_pc, cancelVars, downloadVars>>

\* lines 229-248: job.output_path.stat() raises inside the try block when the
\* output file has been removed in the meantime.
WorkerStatOutput(j) ==
    /\ w_pc[j] = "L229"
    /\ w_pc' = [w_pc EXCEPT ![j] = IF outputs[j] = "absent" THEN "L249" ELSE "done"]
    /\ UNCHANGED <<sideVars, jobs, fileVars, queue, line_count, s_pc, cancelVars, downloadVars>>

\* lines 249-267: except Exception
WorkerExcept(j) ==
    /\ w_pc[j] = "L249"
    /\ SetStatus(j, "failed", MsgProcessorError)
    /\ w_pc' = [w_pc EXCEPT ![j] = "done"]
    /\ UNCHANGED <<sideVars, fileVars, queue, line_count, s_pc, cancelVars, downloadVars>>

_run_processing(j) ==
    \/ WorkerStart(j) \/ WorkerStatInput(j) \/ WorkerOpenInput(j)
    \/ WorkerOpenOutput(j) \/ WorkerLoop(j) \/ WorkerCancelMid(j)
    \/ WorkerUnlink(j) \/ WorkerFinalCheck(j) \/ WorkerCancelFinal(j)
    \/ WorkerComplete(j) \/ WorkerStatOutput(j) \/ WorkerExcept(j)

process_with_timeout(j) ==
    \/ SupervisorReturn(j) \/ SupervisorDeadline(j) \/ SupervisorMark(j)

\* ---- POST /cancel/{id} and cancel_job -----------------------------------
\* The route of the cancel request: 404 for an id the registry does not
\* know, 409 when cancel_job refuses, 200 when it accepts.
cancel_endpoint(found, accepted) ==
    IF ~found THEN 404 ELSE IF accepted THEN 200 ELSE 409

CancelReturn(found, accepted) ==
    /\ c_pc' = "idle"
    /\ c_result' = accepted
    /\ c_status' = cancel_endpoint(found, accepted)

\* lines 121-123: a request for job id j arrives and cancel_job looks it up
CancelLookup(j) ==
    /\ c_pc = "idle"
    /\ c_count < MaxCancels
    /\ c_count' = c_count + 1
    /\ c_job' = j
    /\ IF j \in registered
         THEN /\ c_pc' = "L126"
              /\ c_result' = FALSE
              /\ c_status' = 0
         ELSE CancelReturn(FALSE, FALSE)
    /\ UNCHANGED <<sideVars, jobs, fileVars, workerVars, s_pc, downloadVars>>

\* A terminal check that forgets the status failed.
NotCancellableButFailed(st) == st \in {"completed", "timeout", "cancelled"}

\* The statuses cancel_job refuses to cancel (line 126).
NotCancellable(st) == st \in {"completed", "failed", "timeout", "cancelled"}

\* lines 126-127: return False for a job in a terminal status
CancelCheck(j) ==
    /\ c_pc = "L126" /\ c_job = j
    /\ IF NotCancellable(jobs[j].status)
         THEN CancelReturn(TRUE, FALSE)
         ELSE /\ c_pc' = "L130"
              /\ UNCHANGED <<c_result, c_status>>
    /\ UNCHANGED <<sideVars, jobs, fileVars, workerVars, s_pc, c_job, c_count, downloadVars>>

\* line 130: job.cancel_requested = True
CancelSetFlag(j) ==
    /\ c_pc = "L130" /\ c_job = j
    /\ jobs' = [jobs EXCEPT ![j].cancel_requested = TRUE]
    /\ c_pc' = "L132"
    /\ UNCHANGED <<sideVars, fileVars, workerVars, s_pc, c_job, c_result, c_status, c_count,
                   downloadVars>>

\* line 132: if job.status == "pending"
CancelBranch(j) ==
    /\ c_pc = "L132" /\ c_job = j
    /\ c_pc' = IF jobs[j].status = "pending" THEN "L134" ELSE "L143"
    /\ UNCHANGED <<sideVars, jobs, fileVars, workerVars, s_pc, c_job, c_result, c_status,
                   c_count, downloadVars>>

\* The pending branch without line 136: the error message is not written.
CancelPendingNoMessage(j) ==
    /\ c_pc = "L134" /\ c_job = j
    /\ SetStatusKeepError(j, "cancelled")
    /\ CancelReturn(TRUE, TRUE)
    /\ UNCHANGED <<sideVars, fileVars, workerVars, s_pc, c_job, c_count, downloadVars>>

\* lines 134-136 and 150: the job had not started
CancelPending(j) ==
    /\ c_pc = "L134" /\ c_job = j
    /\ SetStatus(j, "cancelled", MsgCancelled)
    /\ CancelReturn(TRUE, TRUE)
    /\ UNCHANGED <<sideVars, fileVars, workerVars, s_pc, c_job, c_count, downloadVars>>

\* lines 143-144 and 150: the job is processing and will test the flag
CancelProcessing(j) ==
    /\ c_pc = "L143" /\ c_job = j
    /\ SetStatusKeepError(j, "cancelling")
    /\ CancelReturn(TRUE, TRUE)
    /\ UNCHANGED <<sideVars, fileVars, workerVars, s_pc, c_job, c_count, downloadVars>>

cancel_job(j) ==
    \/ CancelLookup(j) \/ CancelCheck(j) \/ CancelSetFlag(j)
    \/ CancelBranch(j) \/ CancelPending(j) \/ CancelProcessing(j)

\* ---- GET /download/{id} -------------------------------------------------
\* download_processed_file is a coroutine without an await: the event loop
\* runs one download at a time, while the other threads go on.
DownloadReturn(code) ==
    /\ d_pc' = "idle"
    /\ d_status' = code

\* The lookup without the status gate of lines 230-248.
DownloadGateNoStatus(j) ==
    /\ d_pc = "idle"
    /\ d_job' = j
    /\ IF j \notin registered
         THEN DownloadReturn(404)
         ELSE /\ d_pc' = "L249"
              /\ d_status' = 0
    /\ UNCHANGED <<sideVars, jobs, fileVars, workerVars, s_pc, cancelVars>>

\* lines 216-248: the job lookup and the status gate
DownloadGate(j) ==
    /\ d_pc = "idle"
    /\ d_job' = j
    /\ IF j \notin registered
         THEN DownloadReturn(404)
         ELSE IF jobs[j].status # "completed"
         THEN DownloadReturn(409)
         ELSE /\ d_pc' = "L249"
              /\ d_status' = 0
    /\ UNCHANGED <<sideVars, jobs, fileVars, workerVars, s_pc, cancelVars>>

\* lines 249-267: the processed file must exist
DownloadExists(j) ==
    /\ d_pc = "L249" /\ d_job = j
    /\ IF outputs[j] = "absent"
         THEN DownloadReturn(404)
         ELSE /\ d_pc' = "L269"
              /\ UNCHANGED d_status
    /\ UNCHANGED <<sideVars, jobs, fileVars, workerVars, s_pc, cancelVars, d_job>>

\* lines 269-279: stat() of the output; a file removed since line 249 raises
\* FileNotFoundError, which no handler catches (500).
DownloadStat(j) ==
    /\ d_pc = "L269" /\ d_job = j
    /\ IF outputs[j] = "absent"
         THEN DownloadReturn(500)
         ELSE /\ d_pc' = "L282"
              /\ UNCHANGED d_status
    /\ UNCHANGED <<sideVars, jobs, fileVars, workerVars, s_pc, cancelVars, d_job>>

\* line 282: if job.upload_path and Path(job.upload_path).exists()
DownloadUploadExists(j) ==
    /\ d_pc = "L282" /\ d_job = j
    /\ IF uploads[j] = "absent"
         THEN DownloadReturn(200)
         ELSE /\ d_pc' = "L284"
              /\ UNCHANGED d_status
    /\ UNCHANGED <<sideVars, jobs, fileVars, workerVars, s_pc, cancelVars, d_job>>

\* The cleanup without the except clause of line 295: a file that is gone
\* fails the request.
DownloadCleanupUncaught(j) ==
    /\ d_pc = "L284" /\ d_job = j
    /\ uploads' = [uploads EXCEPT ![j] = "absent"]
    /\ DownloadReturn(IF uploads[j] = "absent" THEN 500 ELSE 200)
    /\ UNCHANGED <<sideVars, jobs, outputs, workerVars, s_pc, cancelVars, d_job>>

\* A cleanup that removes the processed output together with the upload.
DownloadCleanupBoth(j) ==
    /\ d_pc = "L284" /\ d_job = j
    /\ uploads' = [uploads EXCEPT ![j] = "absent"]
    /\ outputs' = [outputs EXCEPT ![j] = "absent"]
    /\ DownloadReturn(200)
    /\ UNCHANGED <<sideVars, jobs, workerVars, s_pc, cancelVars, d_job>>

\* lines 283-320: stat() and unlink() the upload; when the file has been
\* removed since line 282 they raise FileNotFoundError, an OSError, which
\* is logged (line 295); the FileResponse is returned either way.
DownloadCleanup(j) ==
    /\ d_pc = "L284" /\ d_job = j
    /\ uploads' = [uploads EXCEPT ![j] = "absent"]
    /\ DownloadReturn(200)
    /\ UNCHANGED <<sideVars, jobs, outputs, workerVars, s_pc, cancelVars, d_job>>

download_processed_file(j) ==
    \/ DownloadGate(j) \/ DownloadExists(j) \/ DownloadStat(j)
    \/ DownloadUploadExists(j) \/ DownloadCleanup(j)

\* ---- GET /status/{id} ---------------------------------------------------
\* The members of the JobStatus enumeration (app/models/processing.py).
JobStatus == {"pending", "processing", "completed", "failed"}

\* What the framework answers when a handler raises: 500 with a plain text
\* body.
InternalServerError == [code |-> 500, body |-> [text |-> "Internal Server Error"]]

\* get_job_status reads the registry and changes nothing; it is a coroutine
\* without an await, so its answer is a function of the state it runs in.
\* JobStatus(job.status) raises ValueError for a string that is not the
\* value of a member.
get_job_status(j) ==
    IF j \notin registered
      THEN [code |-> 404, body |-> ProblemDetails("Job not found", 404, "Job not found")]
      ELSE IF jobs[j].status \in JobStatus
      THEN [code |-> 200,
            body |-> [job_id |-> j,
                      status |-> jobs[j].status,
                      created_at |-> jobs[j].created_at,
                      updated_at |-> jobs[j].updated_at,
                      error |-> jobs[j].error]]
      ELSE InternalServerError

\* ---- the retention sweeper ----------------------------------------------
\* Time is not a variable of the model.  A file is older than the retention
\* only when it has not been written for that long.  With no retention at
\* all every file that exists is older than the window as soon as the clock
\* has moved since its last write.  With the default window (24 h), longer
\* than the deadline of process_with_timeout (900 s), an upload can be that
\* old only after the supervisor's wait has ended, and an output only after
\* its worker has stopped writing.
UploadMayBeOld(j) ==
    /\ uploads[j] = "present"
    /\ retention = 0 \/ s_pc[j] \in {"L283", "done"}

OutputMayBeOld(j) ==
    /\ outputs[j] = "present"
    /\ retention = 0 \/ FutureDone(j)

\* run_once, line 53: path.unlink(missing_ok=True) removes the file from the
\* directory, and is no error when the file is already gone.
Sweep(dir, j, old) == IF old THEN [dir EXCEPT ![j] = "absent"] ELSE dir

\* lines 48-52: the sweeper stats a file of directory d and finds its age
\* above the retention window.
SweepStat(d, j) ==
    /\ k_pc = SweeperIdle
    /\ IF d = "upload" THEN UploadMayBeOld(j) ELSE OutputMayBeOld(j)
    /\ k_pc' = <<d, j>>
    /\ UNCHANGED <<jobs, fileVars, workerVars, s_pc, cancelVars, downloadVars,
                   u_req, u_resp, tree, deleted_counts, retention,
                   stampVars, requestVars, upload_path, handler, extraVars>>

\* line 53: the unlink that follows, after whatever the other threads did
\* in between.
SweepUpload(j) ==
    /\ k_pc = <<"upload", j>>
    /\ uploads' = Sweep(uploads, j, TRUE)
    /\ k_pc' = SweeperIdle
    /\ UNCHANGED <<jobs, outputs, workerVars, s_pc, cancelVars, downloadVars,
                   u_req, u_resp, tree, deleted_counts, retention,
                   stampVars, requestVars, upload_path, handler, extraVars>>

SweepOutput(j) ==
    /\ k_pc = <<"output", j>>
    /\ outputs' = Sweep(outputs, j, TRUE)
    /\ k_pc' = SweeperIdle
    /\ UNCHANGED <<jobs, uploads, workerVars, s_pc, cancelVars, downloadVars,
                   u_req, u_resp, tree, deleted_counts, retention,
                   stampVars, requestVars, upload_path, handler, extraVars>>

run_once(j) ==
    \/ \E d \in {"upload", "output"} : SweepStat(d, j)
    \/ SweepUpload(j) \/ SweepOutput(j)

\* ---- one pass of run_once over a directory listing ------------------------
\* tree gives, for UPLOAD_DIR and OUTPUT_DIR, whether the directory exists
\* and what directory.iterdir() lists: per slot nothing, a regular file or a
\* subdirectory, with the age of its modification time in hours at the
\* time `now` the pass reads once; a subdirectory may hold a file of its own.
Dirs == {"upload", "output"}

NoEntry == [kind |-> "none", age |-> 0, inner |-> "none"]

Ages == {0, FILE_RETENTION_HOURS - 1, FILE_RETENTION_HOURS, FILE_RETENTION_HOURS + 1}

DirEntries ==
    {NoEntry}
      \cup [kind : {"file"}, age : Ages, inner : {"none"}]
      \cup [kind : {"dir"}, age : {FILE_RETENTION_HOURS + 1}, inner : {"old file"}]

Listings ==
    [exists : {TRUE}, entries : [1..MaxEntries -> DirEntries]]
      \cup [exists : {FALSE}, entries : [1..MaxEntries -> {NoEntry}]]

Trees == [Dirs -> Listings]

\* The branch of the loop body that skips nothing: everything whose
\* modification time is older than the retention is removed.
SweepEntryAnyKind(e) ==
    IF e.kind # "none" /\ e.age > FILE_RETENTION_HOURS THEN NoEntry ELSE e

\* The loop body, lines 48-58: entries that are not regular files are
\* skipped; a file is unlinked when age > self._retention.
SweepEntry(e) ==
    IF e.kind = "file" /\ e.age > FILE_RETENTION_HOURS THEN NoEntry ELSE e

\* run_once on the listing t: the listing it leaves.
SweptTree(t) ==
    [d \in Dirs |->
        IF ~t[d].exists
          THEN t[d]
          ELSE [exists |-> TRUE,
                entries |-> [i \in 1..MaxEntries |-> SweepEntry(t[d].entries[i])]]]

\* run_once on the listing t: the mapping it returns, with an entry for
\* every directory that exists.
DeletedCounts(t) ==
    [d \in {x \in Dirs : t[x].exists} |->
        Cardinality({i \in 1..MaxEntries : SweepEntry(t[d].entries[i]) # t[d].entries[i]})]

SweepPass ==
    /\ deleted_counts = None
    /\ tree' = SweptTree(tree)
    /\ deleted_counts' = DeletedCounts(tree)
    /\ UNCHANGED <<jobs, fileVars, workerVars, s_pc, cancelVars, downloadVars,
                   k_pc, u_req, u_resp, retention, stampVars, requestVars, upload_path, handler, extraVars>>

SweepInit ==
    /\ Idle
    /\ u_req = ValidRequest
    /\ tree \in Trees
    /\ retention = FILE_RETENTION_HOURS

SweepNext == SweepPass

SweepSpec == SweepInit /\ [][SweepNext]_vars

\* ---- run_once over a directory listing whose files may fail ---------------
\* What can go wrong with one file of a listing: path.is_file() (line 48)
\* raises an OSError that pathlib does not swallow (it swallows ENOENT,
\* ENOTDIR, EBADF and ELOOP only), path.stat() (line 51) raises, or
\* path.unlink() (line 54) raises.
Faults == {"none", "is_file", "stat", "unlink"}

NoFaultEntry == [kind |-> "none", age |-> 0, fault |-> "none"]

FaultEntries ==
    {NoFaultEntry}
      \cup [kind : {"file"}, age : {FILE_RETENTION_HOURS, FILE_RETENTION_HOURS + 1},
            fault : Faults]
      \cup [kind : {"dir"}, age : {FILE_RETENTION_HOURS + 1}, fault : {"none"}]

FaultTrees ==
    [Dirs -> [exists : {TRUE}, entries : [1..MaxEntries -> FaultEntries]]
               \cup [exists : {FALSE}, entries : [1..MaxEntries -> {NoFaultEntry}]]]

\* _iter_target_dirs yields UPLOAD_DIR, then OUTPUT_DIR (lines 32-34); the
\* position of entry i of directory d in the order of the two loops.
VisitPosition(d, i) == IF d = "upload" THEN i ELSE MaxEntries + i

\* The positions at which the pass over t is left by an exception: is_file()
\* is called outside the try block of lines 50-58.
RaisingPositions(t) ==
    { VisitPosition(d, i) : <<d, i>> \in
        { x \in Dirs \X (1..MaxEntries) :
            t[x[1]].exists /\ t[x[1]].entries[x[2]].fault = "is_file" } }

\* The position at which the pass over t ends: the first one that raises, or
\* past the last entry.
PassEnd(t) ==
    IF RaisingPositions(t) = {}
      THEN 2 * MaxEntries + 1
      ELSE CHOOSE k \in RaisingPositions(t) : \A m \in RaisingPositions(t) : k <= m

\* The loop body on one entry, lines 48-58: an OSError of stat() or unlink()
\* is logged and the loop goes on with the file left in place.
SweepFaultyEntry(e) ==
    IF e.kind = "file" /\ e.fault = "none" /\ e.age > FILE_RETENTION_HOURS
      THEN NoFaultEntry
      ELSE e

\* run_once on the listing t: the listing it leaves.
FaultSweptTree(t) ==
    [d \in Dirs |->
        [exists |-> t[d].exists,
         entries |-> [i \in 1..MaxEntries |->
                        IF t[d].exists /\ VisitPosition(d, i) < PassEnd(t)
                          THEN SweepFaultyEntry(t[d].entries[i])
                          ELSE t[d].entries[i]]]]

\* One turn of _loop, lines 70-74: run_once() inside try / except Exception;
\* the turn records whether run_once raised, and the loop goes on either way.
LoopTurn ==
    /\ tree' = FaultSweptTree(tree)
    /\ deleted_counts' = [raised |-> PassEnd(tree) <= 2 * MaxEntries]
    /\ UNCHANGED <<jobs, fileVars, workerVars, s_pc, cancelVars, downloadVars,
                   k_pc, u_req, u_resp, retention, stampVars, requestVars, upload_path, handler, extraVars>>

FaultInit ==
    /\ Idle
    /\ u_req = ValidRequest
    /\ tree \in FaultTrees
    /\ retention = FILE_RETENTION_HOURS

FaultNext == LoopTurn

FaultSpec == FaultInit /\ [][FaultNext]_vars

\* ---- run_once counting what it deletes, among the other threads -----------
\* lines 42-46: deleted_counts = {} and deleted = 0; the model keeps the
\* running count of each directory in deleted_counts.
PassBegin ==
    /\ deleted_counts = None
    /\ deleted_counts' = [d \in Dirs |-> 0]
    /\ UNCHANGED <<jobs, fileVars, workerVars, s_pc, cancelVars, downloadVars,
                   k_pc, u_req, u_resp, tree, retention,
                   stampVars, requestVars, upload_path, handler, extraVars>>

\* lines 48-52 within a pass: the file of job j in directory d is a regular
\* file and its age is above the retention window.
CountedStat(d, j) ==
    /\ deleted_counts # None
    /\ SweepStat(d, j)

\* lines 53-54: path.unlink(missing_ok=True); deleted += 1
CountedUnlink(d, j) ==
    /\ deleted_counts # None
    /\ k_pc = <<d, j>>
    /\ IF d = "upload"
         THEN uploads' = Sweep(uploads, j, TRUE) /\ UNCHANGED outputs
         ELSE outputs' = Sweep(outputs, j, TRUE) /\ UNCHANGED uploads
    /\ deleted_counts' = [deleted_counts EXCEPT ![d] = @ + 1]
    /\ k_pc' = SweeperIdle
    /\ UNCHANGED <<jobs, workerVars, s_pc, cancelVars, downloadVars,
                   u_req, u_resp, tree, retention,
                   stampVars, requestVars, upload_path, handler, extraVars>>

\* One pass of the sweeper while a job runs to its end and is downloaded.
CountNext ==
    \/ Upload(1)
    \/ WorkerPickup(1)
    \/ WorkerStart(1) \/ WorkerStatInput(1) \/ WorkerOpenInput(1)
    \/ WorkerOpenOutput(1) \/ WorkerLoop(1) \/ WorkerFinalCheck(1)
    \/ WorkerComplete(1) \/ WorkerStatOutput(1) \/ WorkerExcept(1)
    \/ SupervisorReturn(1)
    \/ PassBegin
    \/ \E d \in Dirs : CountedStat(d, 1) \/ CountedUnlink(d, 1)
    \/ \E j \in JobIds : download_processed_file(j)

CountSpec == Init /\ [][CountNext]_vars

\* ---- CleanupService: start_background, stop_background, _loop -------------
\* start_background and stop_background are called one after the other (the
\* lifespan of the application, main.py lines 39 and 42); the threads they
\* start run beside them.
cleanupRest == <<jobs, fileVars, workerVars, s_pc, cancelVars, downloadVars,
                 k_pc, u_req, u_resp, tree, deleted_counts, retention,
                 stampVars, requestVars, upload_path, handler, processing_jobs_active, capture,
                 job_paths, outfile>>

\* threading.Thread.is_alive()
is_alive(t) == cleanup.threads[t] \in {"waiting", "sweeping"}

\* lines 78-83: return when self._thread is alive; otherwise clear the event
\* and start a new daemon thread, which enters the while of line 70.
start_background ==
    /\ cleanup.caller = "idle"
    /\ IF cleanup.thread # 0 /\ is_alive(cleanup.thread)
         THEN UNCHANGED cleanup
         ELSE \E t \in SweeperThreads :
                /\ cleanup.threads[t] = "unstarted"
                /\ \A u \in SweeperThreads : u < t => cleanup.threads[u] # "unstarted"
                /\ cleanup' = [cleanup EXCEPT !.stop_event = FALSE, !.thread = t,
                                              !.threads[t] = "waiting"]
    /\ UNCHANGED cleanupRest

\* lines 86-88: return when there is no thread; otherwise set the event and
\* go to join the thread.
StopSet ==
    /\ cleanup.caller = "idle"
    /\ IF cleanup.thread = 0
         THEN UNCHANGED cleanup
         ELSE cleanup' = [cleanup EXCEPT !.stop_event = TRUE, !.caller = "L89"]
    /\ UNCHANGED cleanupRest

\* lines 89-90: self._thread.join(timeout=5) returns when the thread has
\* ended, or after five seconds while the thread is still inside run_once;
\* then self._thread = None.
StopJoin ==
    /\ cleanup.caller = "L89"
    /\ cleanup.threads[cleanup.thread] \in {"exited", "sweeping"}
    /\ cleanup' = [cleanup EXCEPT !.thread = 0, !.caller = "idle"]
    /\ UNCHANGED cleanupRest

stop_background == StopSet \/ StopJoin

\* line 70: while not self._stop_event.wait(self._interval_seconds): the
\* wait returns True at once when the event is set, and False when the
\* interval has passed with the event not set.
LoopWait(t) ==
    /\ cleanup.threads[t] = "waiting"
    /\ cleanup' = [cleanup EXCEPT !.threads[t] =
                     IF cleanup.stop_event THEN "exited" ELSE "sweeping"]
    /\ UNCHANGED cleanupRest

\* lines 71-74: self.run_once() has returned or raised; back to line 70.
LoopSweep(t) ==
    /\ cleanup.threads[t] = "sweeping"
    /\ cleanup' = [cleanup EXCEPT !.threads[t] = "waiting"]
    /\ UNCHANGED cleanupRest

CleanupNext ==
    \/ start_background
    \/ stop_background
    \/ \E t \in SweeperThreads : LoopWait(t) \/ LoopSweep(t)

CleanupSpec == Init /\ [][CleanupNext]_vars

\* ---- _run_processing and the gauge processing_jobs_active -----------------
\* The three places where _run_processing calls the MetricsTracker, with the
\* gauge they move (metrics.py lines 181-207); every other step of the
\* worker leaves the gauge alone.
gaugeRest == <<k_pc, u_req, u_resp, tree, deleted_counts, retention,
               stampVars, requestVars, upload_path, handler, cleanup, capture, job_paths,
               outfile>>

\* lines 160-161: the stat of the upload, then track_processing_started:
\* processing_jobs_active.inc()
TrackedStatInput(j) ==
    /\ w_pc[j] = "L160"
    /\ IF uploads[j] = "absent"
         THEN /\ w_pc' = [w_pc EXCEPT ![j] = "raised"]
              /\ UNCHANGED processing_jobs_active
         ELSE /\ w_pc' = [w_pc EXCEPT ![j] = "L194"]
              /\ processing_jobs_active' = processing_jobs_active + 1
    /\ UNCHANGED <<gaugeRest, jobs, fileVars, queue, line_count, s_pc, cancelVars, downloadVars>>

\* lines 229-232: the stat of the output, then track_processing_completed:
\* processing_jobs_active.dec()
TrackedStatOutput(j) ==
    /\ w_pc[j] = "L229"
    /\ IF outputs[j] = "absent"
         THEN /\ w_pc' = [w_pc EXCEPT ![j] = "L249"]
              /\ UNCHANGED processing_jobs_active
         ELSE /\ w_pc' = [w_pc EXCEPT ![j] = "done"]
              /\ processing_jobs_active' = processing_jobs_active - 1
    /\ UNCHANGED <<gaugeRest, jobs, fileVars, queue, line_count, s_pc, cancelVars, downloadVars>>

\* lines 249-255: except Exception, with track_processing_failed:
\* processing_jobs_active.dec()
TrackedExcept(j) ==
    /\ w_pc[j] = "L249"
    /\ SetStatus(j, "failed", MsgProcessorError)
    /\ w_pc' = [w_pc EXCEPT ![j] = "done"]
    /\ processing_jobs_active' = processing_jobs_active - 1
    /\ UNCHANGED <<gaugeRest, fileVars, queue, line_count, s_pc, cancelVars, downloadVars>>

\* The pool with its gauge, and cancel requests.
GaugeNext ==
    \E j \in JobIds :
        \/ Upload(j)
        \/ WorkerPickup(j)
        \/ WorkerStart(j) \/ TrackedStatInput(j) \/ WorkerOpenInput(j)
        \/ WorkerOpenOutput(j) \/ WorkerLoop(j) \/ WorkerCancelMid(j)
        \/ WorkerUnlink(j) \/ WorkerFinalCheck(j) \/ WorkerCancelFinal(j)
        \/ WorkerComplete(j) \/ TrackedStatOutput(j) \/ TrackedExcept(j)
        \/ cancel_job(j)

GaugeSpec == Init /\ [][GaugeNext]_vars

\* ---- capturing the byte stream of an upload ------------------------------
\* The bytes of a stream, and the streams of every length up to one byte
\* above the limit.
Bytes == {"G", ";"}

Streams == UNION {[1..n -> Bytes] : n \in 0..(MAX_UPLOAD_SIZE + 1)}

\* file_obj.read(chunk_size): the next chunk of what is left of the stream.
ReadChunk(rest) == SubSeq(rest, 1, IF Len(rest) < CHUNK_SIZE THEN Len(rest) ELSE CHUNK_SIZE)

\* The loop of save_upload that counts chunks instead of bytes.
RECURSIVE SaveLoopCountingChunks(_, _, _)
SaveLoopCountingChunks(rest, f, file_size) ==
    LET chunk == ReadChunk(rest)
    IN  IF chunk = <<>>
          THEN [file |-> f, size |-> file_size]
          ELSE SaveLoopCountingChunks(SubSeq(rest, Len(chunk) + 1, Len(rest)),
                                      f \o chunk, file_size + 1)

\* save_upload, lines 173-179: read a chunk, stop at the empty one, write
\* it, add its length.
RECURSIVE SaveLoop(_, _, _)
SaveLoop(rest, f, file_size) ==
    LET chunk == ReadChunk(rest)
    IN  IF chunk = <<>>
          THEN [file |-> f, size |-> file_size]
          ELSE SaveLoop(SubSeq(rest, Len(chunk) + 1, Len(rest)),
                        f \o chunk, file_size + Len(chunk))

\* save_upload(job_id, filename, file_obj): the path, the file and the size.
save_upload(j, filename, stream) ==
    LET saved == SaveLoop(stream, <<>>, 0)
    IN  [path |-> get_upload_path(j, filename), file |-> saved.file, size |-> saved.size]

\* The capture of the File Store on bytes: copy chunk by chunk with a running
\* count, keep the first HEAD_SIZE bytes, remove the partial file and fail
\* when the count passes MAX_UPLOAD_SIZE, fail on a stream of no bytes.
RECURSIVE CaptureBytes(_, _, _)
CaptureBytes(rest, f, head) ==
    LET chunk == ReadChunk(rest)
        room == HEAD_SIZE - Len(head)
    IN  IF chunk = <<>>
          THEN [error |-> IF f = <<>> THEN "File is empty" ELSE "ok",
                file |-> f, size |-> Len(f), head_chunk |-> head, stored |-> f # <<>>]
          ELSE IF Len(f) + Len(chunk) > MAX_UPLOAD_SIZE
            THEN [error |-> "exceeds maximum allowed size",
                  file |-> <<>>, size |-> Len(f) + Len(chunk), head_chunk |-> head,
                  stored |-> FALSE]
            ELSE CaptureBytes(SubSeq(rest, Len(chunk) + 1, Len(rest)), f \o chunk,
                              head \o SubSeq(chunk, 1, IF Len(chunk) < room
                                                         THEN Len(chunk) ELSE room))

capture_upload(j, filename, stream) ==
    [path |-> get_upload_path(j, filename)] @@ CaptureBytes(stream, <<>>, <<>>)

\* The stream of the request is captured for job j, by the capture of the
\* handler and by save_upload.
Capture(j) ==
    /\ capture = None
    /\ capture' = [job_id |-> j,
                   streaming |-> capture_upload(j, u_req.filename, u_req.stream),
                   plain |-> save_upload(j, u_req.filename, u_req.stream)]
    /\ UNCHANGED <<jobs, fileVars, workerVars, s_pc, cancelVars, downloadVars,
                   k_pc, u_req, u_resp, tree, deleted_counts, retention,
                   stampVars, requestVars, upload_path, handler, cleanup,
                   processing_jobs_active, job_paths, outfile>>

CaptureInit ==
    /\ Idle
    /\ u_req \in {[stream |-> st] @@ [ValidRequest EXCEPT !.length = Len(st)] : st \in Streams}
    /\ tree = None
    /\ retention = FILE_RETENTION_HOURS

CaptureNext == \E j \in JobIds : Capture(j)

CaptureSpec == CaptureInit /\ [][CaptureNext]_vars

\* ---- the paths register_job derives ---------------------------------------
\* get_output_path, lines 209-213: the sanitized name is split again with
\* pathlib and "_processed" goes between its stem and its suffix.
get_output_path(j, filename) ==
    LET path == PathName(sanitize_filename(filename))
    IN  [dir |-> "OUTPUT_DIR", job_id |-> j,
         processed_filename |-> Stem(path) \o <<"_processed">> \o Suffix(path)]

\* job_id = str(uuid.uuid4()), upload.py line 156: a text of fixed length over
\* characters that filenames may contain too, different for every job.
job_id_text(j) ==
    [i \in 1..UuidLen |-> IF ((j - 1) \div (2 ^ (i - 1))) % 2 = 1 THEN "-" ELSE "txt"]

\* directory / f"{job_id}_{name}" as the text of the path (lines 197, 213).
PathText(dir, j, name) == <<dir, "/">> \o job_id_text(j) \o <<"_">> \o name

\* The filenames register_job is called with.
PathChars == {"txt", "gcode", "_", "."}

PathNames == UNION {[1..n -> PathChars] : n \in 1..MaxNameLen}

\* register_job, lines 81-94: both paths are derived from the id and the
\* filename and kept in the job.
RegisterPaths(j) ==
    /\ job_paths[j] = None
    /\ \E filename \in PathNames :
          LET up == get_upload_path(j, filename)
              out == get_output_path(j, filename)
          IN  job_paths' = [job_paths EXCEPT ![j] =
                  [filename |-> filename,
                   upload_path |-> PathText(up.dir, up.job_id, up.safe_filename),
                   output_path |-> PathText(out.dir, out.job_id, out.processed_filename)]]
    /\ UNCHANGED <<jobs, fileVars, workerVars, s_pc, cancelVars, downloadVars,
                   k_pc, u_req, u_resp, tree, deleted_counts, retention,
                   stampVars, requestVars, upload_path, handler, cleanup,
                   processing_jobs_active, capture, outfile>>

PathNext == \E j \in JobIds : RegisterPaths(j)

PathSpec == Init /\ [][PathNext]_vars

\* ---- the output stream of the worker ---------------------------------------
\* What every step outside the with block of line 196 leaves alone.
streamRest == <<k_pc, u_req, u_resp, tree, deleted_counts, retention,
                stampVars, requestVars, upload_path, handler, cleanup,
                processing_jobs_active, capture, job_paths>>

\* line 196: with job.output_path.open("w") as outfile creates the file and
\* holds the stream open.
StreamOpenOutput(j) ==
    /\ w_pc[j] = "L196"
    /\ outputs' = [outputs EXCEPT ![j] = "present"]
    /\ outfile' = [outfile EXCEPT ![j] = "open"]
    /\ w_pc' = [w_pc EXCEPT ![j] = "L197"]
    /\ UNCHANGED <<streamRest, jobs, uploads, queue, line_count, s_pc, cancelVars, downloadVars>>

\* The loop that marks the job completed as soon as it has written a line.
StreamLoopCompletingEarly(j) ==
    /\ w_pc[j] = "L197"
    /\ \E ev \in {"line", "end", "raise"} :
         \/ /\ ev = "line"
            /\ line_count[j] < MaxLines
            /\ IF Checkpoint(j)
                 THEN /\ w_pc' = [w_pc EXCEPT ![j] = "L200"]
                      /\ UNCHANGED <<jobs, line_count, outfile>>
                 ELSE /\ line_count' = [line_count EXCEPT ![j] = @ + 1]
                      /\ SetStatusKeepError(j, "completed")
                      /\ UNCHANGED <<w_pc, outfile>>
         \/ /\ ev = "end"
            /\ w_pc' = [w_pc EXCEPT ![j] = "L219"]
            /\ outfile' = [outfile EXCEPT ![j] = "whole"]
            /\ UNCHANGED <<jobs, line_count>>
         \/ /\ ev = "raise"
            /\ w_pc' = [w_pc EXCEPT ![j] = "L249"]
            /\ outfile' = [outfile EXCEPT ![j] = "partial"]
            /\ UNCHANGED <<jobs, line_count>>
    /\ UNCHANGED <<streamRest, fileVars, queue, s_pc, cancelVars, downloadVars>>

\* lines 197-216 with the stream: outfile.write(line) for a produced line;
\* when the processor has no more lines the with block ends and closes the
\* stream on the whole text; when the processor raises, the with block
\* closes it on what was written so far.
StreamLoop(j) ==
    /\ w_pc[j] = "L197"
    /\ \E ev \in {"line", "end", "raise"} :
         \/ /\ ev = "line"
            /\ line_count[j] < MaxLines
            /\ IF Checkpoint(j)
                 THEN /\ w_pc' = [w_pc EXCEPT ![j] = "L200"]
                      /\ UNCHANGED <<line_count, outfile>>
                 ELSE /\ line_count' = [line_count EXCEPT ![j] = @ + 1]
                      /\ UNCHANGED <<w_pc, outfile>>
         \/ /\ ev = "end"
            /\ w_pc' = [w_pc EXCEPT ![j] = "L219"]
            /\ outfile' = [outfile EXCEPT ![j] = "whole"]
            /\ UNCHANGED line_count
         \/ /\ ev = "raise"
            /\ w_pc' = [w_pc EXCEPT ![j] = "L249"]
            /\ outfile' = [outfile EXCEPT ![j] = "partial"]
            /\ UNCHANGED line_count
    /\ UNCHANGED <<streamRest, jobs, fileVars, queue, s_pc, cancelVars, downloadVars>>

\* lines 204-216 / 223-225: unlink() and return; the return at line 215 is
\* inside the with block and closes the stream on a partial text.
StreamUnlink(j) ==
    /\ w_pc[j] \in {"L204", "L223"}
    /\ outputs' = [outputs EXCEPT ![j] = "absent"]
    /\ outfile' = [outfile EXCEPT ![j] = IF w_pc[j] = "L204" THEN "partial" ELSE @]
    /\ w_pc' = [w_pc EXCEPT ![j] = "done"]
    /\ UNCHANGED <<streamRest, jobs, uploads, queue, line_count, s_pc, cancelVars, downloadVars>>

\* One job with its worker, its supervisor, cancel requests and downloads.
StreamNext ==
    \/ Upload(1)
    \/ process_with_timeout(1)
    \/ WorkerPickup(1)
    \/ WorkerStart(1) \/ WorkerStatInput(1) \/ WorkerOpenInput(1)
    \/ StreamOpenOutput(1) \/ StreamLoop(1) \/ WorkerCancelMid(1)
    \/ StreamUnlink(1) \/ WorkerFinalCheck(1) \/ WorkerCancelFinal(1)
    \/ WorkerComplete(1) \/ WorkerStatOutput(1) \/ WorkerExcept(1)
    \/ \E j \in JobIds :
         \/ cancel_job(j)
         \/ download_processed_file(j)

StreamSpec == Init /\ [][StreamNext]_vars

\* ---- the status writes, statement by statement ---------------------------
\* Every status write is two statements, job.status = s and
\* job.updated_at = datetime.now(), and the second one first evaluates
\* datetime.now() and then stores the value; no lock is held.  StampProgram
\* lists, for each thread, the statements that test or write status,
\* cancel_requested, updated_at or error, in program order; the statements in
\* between touch none of these fields and are left out.  A row is
\* <<thread, position, statement, argument, next position>>.
StampProgram ==
    { <<"worker", "L157", "status", "processing", "L158">>,
      <<"worker", "L158", "now", "", "L158s">>,
      <<"worker", "L158s", "store", "", "L199">>,
      <<"worker", "L199", "if cancel_requested", "L200", "L219">>,
      <<"worker", "L200", "status", "cancelled", "L201">>,
      <<"worker", "L201", "now", "", "L201s">>,
      <<"worker", "L201s", "store", "", "L202">>,
      <<"worker", "L202", "error", MsgCancelledDuring, "done">>,
      <<"worker", "L219", "if cancel_requested", "L220", "L227">>,
      <<"worker", "L220", "status", "cancelled", "L221">>,
      <<"worker", "L221", "now", "", "L221s">>,
      <<"worker", "L221s", "store", "", "L222">>,
      <<"worker", "L222", "error", MsgCancelled, "done">>,
      <<"worker", "L227", "status", "completed", "L228">>,
      <<"worker", "L228", "now", "", "L228s">>,
      <<"worker", "L228s", "store", "", "done">>,
      <<"cancel", "L126", "if terminal", "done", "L130">>,
      <<"cancel", "L130", "flag", "", "L132">>,
      <<"cancel", "L132", "if pending", "L134", "L143">>,
      <<"cancel", "L134", "status", "cancelled", "L135">>,
      <<"cancel", "L135", "now", "", "L135s">>,
      <<"cancel", "L135s", "store", "", "L136">>,
      <<"cancel", "L136", "error", MsgCancelled, "done">>,
      <<"cancel", "L143", "status", "cancelling", "L144">>,
      <<"cancel", "L144", "now", "", "L144s">>,
      <<"cancel", "L144s", "store", "", "done">>,
      <<"supervisor", "L285", "status", "failed", "L286">>,
      <<"supervisor", "L286", "now", "", "L286s">>,
      <<"supervisor", "L286s", "store", "", "L287">>,
      <<"supervisor", "L287", "error", TimeoutMessage(PROCESSING_TIMEOUT), "done">> }

\* The rows of the program that thread t can execute now.
StampRows(kind) == {row \in StampProgram : t_pc[row[1]] = row[2] /\ row[3] = kind}

StampGoto(t, next) == t_pc' = [t_pc EXCEPT ![t] = next]

\* A thread enters its function for job j: the worker is handed the job by
\* the pool, a cancel request arrives (lines 121-123), future.result times
\* out (lines 280-284) while the worker, PROCESSING_TIMEOUT seconds after
\* the submission, is in the body of the job.
StampInBody == t_pc["worker"] \notin {"idle", "L157", "L158", "L158s", "done"}

StampEnter(j) ==
    /\ j \in registered
    /\ \E t \in StampThreads :
         /\ t_pc[t] = "idle"
         /\ t = "supervisor" => StampInBody
         /\ StampGoto(t, CASE t = "worker" -> "L157"
                           [] t = "cancel" -> "L126"
                           [] t = "supervisor" -> "L285")
    /\ UNCHANGED <<jobs, clock, t_now>>

\* if job.status in (...): return False / if job.status == "pending": /
\* if job.cancel_requested:
StampTest(j) ==
    /\ \E row \in StampRows("if terminal") \cup StampRows("if pending")
                    \cup StampRows("if cancel_requested") :
         LET holds == CASE row[3] = "if terminal" -> jobs[j].status \in TerminalStatuses
                        [] row[3] = "if pending" -> jobs[j].status = "pending"
                        [] row[3] = "if cancel_requested" -> jobs[j].cancel_requested
         IN  StampGoto(row[1], IF holds THEN row[4] ELSE row[5])
    /\ UNCHANGED <<jobs, clock, t_now>>

\* job.cancel_requested = True
StampFlag(j) ==
    /\ \E row \in StampRows("flag") :
         /\ jobs' = [jobs EXCEPT ![j].cancel_requested = TRUE]
         /\ StampGoto(row[1], row[5])
    /\ UNCHANGED <<clock, t_now>>

\* job.status = s
StampStatus(j) ==
    /\ \E row \in StampRows("status") :
         /\ jobs' = [jobs EXCEPT ![j].status = row[4]]
         /\ StampGoto(row[1], row[5])
    /\ UNCHANGED <<clock, t_now>>

\* datetime.now() is evaluated: the clock has moved on since the last call.
StampNow(j) ==
    /\ \E row \in StampRows("now") :
         /\ clock' = clock + 1
         /\ t_now' = [t_now EXCEPT ![row[1]] = clock + 1]
         /\ StampGoto(row[1], row[5])
    /\ UNCHANGED jobs

\* job.updated_at = <the value evaluated>
StampStore(j) ==
    /\ \E row \in StampRows("store") :
         /\ jobs' = [jobs EXCEPT ![j].updated_at = t_now[row[1]]]
         /\ StampGoto(row[1], row[5])
    /\ UNCHANGED <<clock, t_now>>

\* job.error = message
StampError(j) ==
    /\ \E row \in StampRows("error") :
         /\ jobs' = [jobs EXCEPT ![j].error = row[4]]
         /\ StampGoto(row[1], row[5])
    /\ UNCHANGED <<clock, t_now>>

StampStep(j) ==
    /\ \/ StampEnter(j) \/ StampTest(j) \/ StampFlag(j)
       \/ StampStatus(j) \/ StampNow(j) \/ StampStore(j) \/ StampError(j)
    /\ UNCHANGED <<fileVars, workerVars, s_pc, cancelVars, downloadVars,
                   k_pc, u_req, u_resp, tree, deleted_counts, retention, requestVars, upload_path, handler, extraVars>>

\* One job, registered by upload_file, and the three threads that write
\* its status.
StampNext ==
    \/ t_pc["worker"] = "idle" /\ Upload(1)
    \/ StampStep(1)

StampSpec == Init /\ [][StampNext]_vars

\* ---- sanitize_filename and get_upload_path on every short filename -------
SanitizeChars == {"txt", "_", "$", "."}

SanitizeNames == UNION {[1..n -> SanitizeChars] : n \in 0..MaxNameLen}

SanitizeInit ==
    /\ Idle
    /\ u_req \in {[ValidRequest EXCEPT !.filename = n] : n \in SanitizeNames}
    /\ tree = None
    /\ retention = FILE_RETENTION_HOURS

GetUploadPath(j) ==
    /\ upload_path = None
    /\ upload_path' = get_upload_path(j, u_req.filename)
    /\ UNCHANGED <<jobs, fileVars, workerVars, s_pc, cancelVars, downloadVars,
                   k_pc, u_req, u_resp, tree, deleted_counts, retention,
                   stampVars, requestVars, handler, extraVars>>

SanitizeNext == \E j \in JobIds : GetUploadPath(j)

SanitizeSpec == SanitizeInit /\ [][SanitizeNext]_vars

\* ---- sanitize_filename on names with upper-case extensions ----------------
\* The filenames a client can send: letters in lower and in upper case, the
\* characters sanitize_filename treats specially, and one it replaces.
ExtensionChars == {"txt", "GCODE", ".", "_", "$", " "}

ExtensionNames == UNION {[1..n -> ExtensionChars] : n \in 0..MaxNameLen}

ExtensionInit ==
    /\ Idle
    /\ u_req \in {[ValidRequest EXCEPT !.filename = n] : n \in ExtensionNames}
    /\ tree = None
    /\ retention = FILE_RETENTION_HOURS

ExtensionSpec == ExtensionInit /\ [][SanitizeNext]_vars

\* ---- RequestLoggingMiddleware (app/middleware/logging.py) -----------------
\* What a request can carry in X-Request-ID: no such header, a header with
\* an empty value, or an id chosen by the client.
InboundIds == {"absent", "", "client-a", "client-b"}

\* What becomes of a request: "ok", the handler returns a response;
\* "error", the handler returns an error response (such as the 404 of
\* get_job_status); "raise", the handler raises (such as JobStatus(job.status)
\* for a cancelled job); "preflight", a CORS preflight request, which
\* CORSMiddleware, added after RequestLoggingMiddleware and so wrapped
\* around it (main.py lines 55-64), answers itself.
RequestKinds == {"ok", "error", "raise", "preflight"}

\* str(uuid.uuid4()): a value no earlier call has returned.
Uuids == <<"uuid-1", "uuid-2", "uuid-3", "uuid-4">>

uuid4 == Uuids[uuid_count + 1]

\* set_request_id: request_id_var.set(request_id) binds the value in the
\* context of the request being dispatched.
set_request_id(r, id) ==
    request_id_var' = [request_id_var EXCEPT ![r] = id]

\* dispatch, lines 48-55, up to the await of call_next; a preflight request
\* does not get that far.
Dispatch(r) ==
    /\ rq[r].pc = "idle"
    /\ \E kind \in RequestKinds, inbound \in InboundIds :
         IF kind = "preflight"
           THEN /\ rq' = [rq EXCEPT ![r] = [@ EXCEPT !.pc = "sent", !.kind = kind,
                                                       !.inbound = inbound, !.code = 200]]
                /\ UNCHANGED <<request_id_var, uuid_count>>
           ELSE LET fresh == inbound \in {"absent", ""}
                    request_id == IF fresh THEN uuid4 ELSE inbound
                IN  /\ rq' = [rq EXCEPT ![r] = [@ EXCEPT !.pc = "L59", !.kind = kind,
                                                           !.inbound = inbound,
                                                           !.request_id = request_id]]
                    /\ set_request_id(r, request_id)
                    /\ uuid_count' = IF fresh THEN uuid_count + 1 ELSE uuid_count
    /\ UNCHANGED <<jobs, fileVars, workerVars, s_pc, cancelVars, downloadVars,
                   k_pc, u_req, u_resp, tree, deleted_counts, retention,
                   stampVars, upload_path, handler, extraVars>>

\* The handler runs inside call_next, in the context of its request, and
\* reads get_request_id() for its log records.
Handler(r) ==
    /\ rq[r].pc = "L59"
    /\ rq' = [rq EXCEPT ![r] = [@ EXCEPT !.pc = "L60", !.seen = request_id_var[r]]]
    /\ UNCHANGED <<jobs, fileVars, workerVars, s_pc, cancelVars, downloadVars,
                   k_pc, u_req, u_resp, tree, deleted_counts, retention,
                   stampVars, request_id_var, uuid_count, upload_path, handler, extraVars>>

\* call_next returns a response, which gets the header (line 76), or raises:
\* the except clause logs and raises again (lines 80-94) and the server
\* answers 500 itself.
Respond(r) ==
    /\ rq[r].pc = "L60"
    /\ rq' = [rq EXCEPT ![r] =
                 CASE rq[r].kind = "ok" -> [@ EXCEPT !.pc = "sent", !.code = 200,
                                                     !.header = rq[r].request_id]
                   [] rq[r].kind = "error" -> [@ EXCEPT !.pc = "sent", !.code = 404,
                                                        !.header = rq[r].request_id]
                   [] rq[r].kind = "raise" -> [@ EXCEPT !.pc = "sent", !.code = 500]]
    /\ UNCHANGED <<jobs, fileVars, workerVars, s_pc, cancelVars, downloadVars,
                   k_pc, u_req, u_resp, tree, deleted_counts, retention,
                   stampVars, request_id_var, uuid_count, upload_path, handler, extraVars>>

RequestNext == \E r \in RequestIds : Dispatch(r) \/ Handler(r) \/ Respond(r)

RequestSpec == Init /\ [][RequestNext]_vars

\* ---- the system ---------------------------------------------------------
\* The registry and the pool: uploads, supervisors, workers and cancel
\* requests for NumJobs jobs.
Next ==
    \E j \in JobIds :
        \/ Upload(j)
        \/ process_with_timeout(j)
        \/ WorkerPickup(j)
        \/ _run_processing(j)
        \/ cancel_job(j)

Spec == Init /\ [][Next]_vars

\* The life of one job with every kind of request: the job with id 1 is
\* uploaded, supervised, processed, cancelled, downloaded and swept; requests
\* for the other ids of JobIds find no job.
JobNext ==
    \/ Upload(1)
    \/ process_with_timeout(1)
    \/ WorkerPickup(1)
    \/ _run_processing(1)
    \/ run_once(1)
    \/ \E j \in JobIds :
         \/ cancel_job(j)
         \/ download_processed_file(j)

JobSpec == Init /\ [][JobNext]_vars

\* FILE_RETENTION_HOURS is read from the environment (settings.py line 44):
\* the default, or no retention at all.
RetentionSettings == {0, FILE_RETENTION_HOURS}

RetentionInit ==
    /\ Idle
    /\ u_req = ValidRequest
    /\ tree = None
    /\ retention \in RetentionSettings

\* The same system under either setting of the retention.
RetentionSpec == RetentionInit /\ [][JobNext]_vars

\* One upload request, drawn from Requests, served by upload_file.
UploadInit ==
    /\ Idle
    /\ u_req \in Requests
    /\ tree = None
    /\ retention = FILE_RETENTION_HOURS

UploadNext ==
    \E j \in JobIds :
        /\ u_resp = None
        /\ Upload(j)

UploadSpec == UploadInit /\ [][UploadNext]_vars

\* The pool alone: uploads and the workers that take the jobs and run them,
\* with no cancel request and no deadline passing.
PoolNext ==
    \E j \in JobIds :
        \/ Upload(j)
        \/ WorkerPickup(j)
        \/ WorkerStart(j) \/ WorkerStatInput(j) \/ WorkerOpenInput(j)
        \/ WorkerOpenOutput(j) \/ WorkerLoop(j) \/ WorkerFinalCheck(j)
        \/ WorkerComplete(j) \/ WorkerStatOutput(j) \/ WorkerExcept(j)

PoolSpec == Init /\ [][PoolNext]_vars

\* ---- upload_file, statement by statement --------------------------------
\* The coroutine of one POST /upload, its file and its job: the handler runs
\* on the event loop, the capture loop awaits between two chunks, and the
\* background task that submits the job runs after the response was sent.
\* Every request carries the content u_req; the job ids are fresh uuids.
handlerRest == <<outputs, line_count, cancelVars, downloadVars,
                 k_pc, u_req, u_resp, tree, deleted_counts, retention,
                 stampVars, requestVars, upload_path, extraVars>>

\* The handler of job j goes to position pc.
HandlerGoto(j, pc) == handler' = [handler EXCEPT ![j].pc = pc]

\* The handler of job j answers resp and ends.
HandlerAnswer(j, resp) == handler' = [handler EXCEPT ![j].pc = "done", ![j].resp = resp]

\* The framework binds the form fields before it calls upload_file
\* (upload.py lines 127-135); line 156 draws the job id.
HandlerBind(j) ==
    /\ handler[j].pc = "idle"
    /\ \A i \in JobIds : i < j => handler[i].pc # "idle"
    /\ IF RequestBinding(u_req)
         THEN HandlerGoto(j, "L160")
         ELSE HandlerAnswer(j, RequestValidationError(u_req))
    /\ UNCHANGED <<jobs, uploads, queue, w_pc, s_pc, handlerRest>>

\* lines 160-164: the filename is present, valid and has an allowed extension
HandlerValidateName(j) ==
    /\ handler[j].pc = "L160"
    /\ IF u_req.filename = <<>>
         THEN HandlerAnswer(j, UploadError("FileValidationError", "No filename provided"))
       ELSE IF validate_filename(u_req.filename) # "ok"
         THEN HandlerAnswer(j, UploadError("FileValidationError",
                                           validate_filename(u_req.filename)))
       ELSE IF validate_file_extension(u_req.filename) # "ok"
         THEN HandlerAnswer(j, UploadError("FileValidationError",
                                           validate_file_extension(u_req.filename)))
       ELSE HandlerGoto(j, "L168")
    /\ UNCHANGED <<jobs, uploads, queue, w_pc, s_pc, handlerRest>>

\* lines 168-170: await save_upload_streaming(...), one turn of its capture
\* loop: a chunk is read and written, or the stream has ended and the file
\* is closed.
HandlerCapture(j) ==
    LET running == handler[j].written
        remaining == u_req.length - running
        chunk == IF remaining < CHUNK_SIZE THEN remaining ELSE CHUNK_SIZE
    IN  /\ handler[j].pc = "L168"
        /\ IF remaining = 0
             THEN IF running = 0
                    THEN /\ HandlerAnswer(j, UploadError("FileValidationError",
                                                         "File is empty"))
                         /\ uploads' = [uploads EXCEPT ![j] = "absent"]
                    ELSE /\ HandlerGoto(j, "L173")
                         /\ uploads' = [uploads EXCEPT ![j] = "present"]
             ELSE IF running + chunk > MAX_UPLOAD_SIZE
                    THEN /\ HandlerAnswer(j, UploadError("FileTooLargeError",
                                                         "exceeds maximum allowed size"))
                         /\ uploads' = [uploads EXCEPT ![j] = "absent"]
                    ELSE /\ handler' = [handler EXCEPT ![j].written = running + chunk]
                         /\ uploads' = [uploads EXCEPT ![j] = "partial"]
        /\ UNCHANGED <<jobs, queue, w_pc, s_pc, handlerRest>>

\* line 173: validate_gcode_content(first_chunk)
HandlerValidateContent(j) ==
    /\ handler[j].pc = "L173"
    /\ IF validate_gcode_content(u_req.patterns) # "ok"
         THEN HandlerAnswer(j, UploadError("FileValidationError",
                                           validate_gcode_content(u_req.patterns)))
         ELSE HandlerGoto(j, "L177")
    /\ UNCHANGED <<jobs, uploads, queue, w_pc, s_pc, handlerRest>>

\* A handler that calls process_with_timeout itself instead of handing it
\* to the background tasks: the job is submitted before the response.
HandlerRegisterAndSubmit(j) ==
    /\ handler[j].pc = "L177"
    /\ register_job(j)
    /\ queue' = queue_job(j)
    /\ w_pc' = [w_pc EXCEPT ![j] = "queued"]
    /\ s_pc' = [s_pc EXCEPT ![j] = "L280"]
    /\ HandlerGoto(j, "L192")
    /\ UNCHANGED <<uploads, handlerRest>>

\* lines 176-182: processing_service.register_job(...)
HandlerRegister(j) ==
    /\ handler[j].pc = "L177"
    /\ register_job(j)
    /\ HandlerGoto(j, "L184")
    /\ UNCHANGED <<uploads, queue, w_pc, s_pc, handlerRest>>

\* lines 184-199: background_tasks.add_task(...) and the UploadResponse,
\* which is sent before the background task runs.
HandlerRespond(j) ==
    /\ handler[j].pc \in {"L184", "L192"}
    /\ handler' = [handler EXCEPT
                     ![j].pc = IF @ = "L184" THEN "L278" ELSE "done",
                     ![j].resp = [code |-> 201,
                                  body |-> [job_id |-> j, filename |-> u_req.filename,
                                            file_size |-> handler[j].written,
                                            status |-> "pending"]]]
    /\ UNCHANGED <<jobs, uploads, queue, w_pc, s_pc, handlerRest>>

\* The background task: process_with_timeout line 278, queue_job lines
\* 271-274, submits _run_processing to the pool and goes to wait at line 280.
HandlerSubmit(j) ==
    /\ handler[j].pc = "L278"
    /\ j \in registered
    /\ queue' = queue_job(j)
    /\ w_pc' = [w_pc EXCEPT ![j] = "queued"]
    /\ s_pc' = [s_pc EXCEPT ![j] = "L280"]
    /\ HandlerGoto(j, "done")
    /\ UNCHANGED <<jobs, uploads, handlerRest>>

\* The requests the handlers are run with: every stream length, every
\* content, a valid and a missing filename, a valid and an invalid field.
SubmitRequests ==
    { r \in [ filename : {ValidRequest.filename, <<>>},
              length : {0, 1, MAX_UPLOAD_SIZE, MAX_UPLOAD_SIZE + 1,
                        MAX_UPLOAD_SIZE + CHUNK_SIZE + 1},
              patterns : {{}, {"G", "X"}, {"G", "X", ";"}},
              start_at_layer : {-1, 0},
              extrusion_multiplier : {100} ] :
        r.length = 0 => r.patterns = {} }

SubmitInit ==
    /\ Idle
    /\ u_req \in SubmitRequests
    /\ tree = None
    /\ retention = FILE_RETENTION_HOURS

SubmitNext ==
    \E j \in JobIds :
        \/ HandlerBind(j) \/ HandlerValidateName(j) \/ HandlerCapture(j)
        \/ HandlerValidateContent(j) \/ HandlerRegister(j) \/ HandlerRespond(j)
        \/ HandlerSubmit(j)
        \/ WorkerPickup(j) \/ WorkerStart(j) \/ WorkerStatInput(j)

SubmitSpec == SubmitInit /\ [][SubmitNext]_vars

\* ---- download_processed_file, the cleanup and the response apart ----------
\* line 282: if job.upload_path and Path(job.upload_path).exists()
DownloadUploadCheck(j) ==
    /\ d_pc = "L282" /\ d_job = j
    /\ d_pc' = IF uploads[j] = "absent" THEN "L320" ELSE "L284"
    /\ UNCHANGED <<sideVars, jobs, fileVars, workerVars, s_pc, cancelVars, d_job, d_status>>

\* lines 283-285: stat() and unlink() of the upload file, inside the handler;
\* the FileResponse was built at line 275 and has not been returned yet.
DownloadUnlink(j) ==
    /\ d_pc = "L284" /\ d_job = j
    /\ uploads' = [uploads EXCEPT ![j] = "absent"]
    /\ d_pc' = "L320"
    /\ UNCHANGED <<sideVars, jobs, outputs, workerVars, s_pc, cancelVars, d_job, d_status>>

\* line 320: return response.  The framework then sends the FileResponse:
\* it stats the file and commits the 200 status line, or fails with 500 when
\* the file has been removed since the handler looked at it.
DownloadCommit(j) ==
    /\ d_pc = "L320" /\ d_job = j
    /\ DownloadReturn(IF outputs[j] = "absent" THEN 500 ELSE 200)
    /\ UNCHANGED <<sideVars, jobs, fileVars, workerVars, s_pc, cancelVars, d_job>>

\* Downloads of a job that runs to its end, with the sweeper at work.
DownloadNext ==
    \/ Upload(1)
    \/ WorkerPickup(1)
    \/ WorkerStart(1) \/ WorkerStatInput(1) \/ WorkerOpenInput(1)
    \/ WorkerOpenOutput(1) \/ WorkerLoop(1) \/ WorkerFinalCheck(1)
    \/ WorkerComplete(1) \/ WorkerStatOutput(1) \/ WorkerExcept(1)
    \/ SupervisorReturn(1)
    \/ run_once(1)
    \/ \E j \in JobIds :
         \/ DownloadGate(j) \/ DownloadExists(j) \/ DownloadStat(j)
         \/ DownloadUploadCheck(j) \/ DownloadUnlink(j) \/ DownloadCommit(j)

DownloadSpec == Init /\ [][DownloadNext]_vars

TypeOK ==
    /\ registered \subseteq JobIds
    /\ \A j \in registered :
         jobs[j].status \in {"pending", "processing", "cancelling", "completed",
                             "failed", "cancelled", "timeout"}

\* ---- properties of the job state machine --------------------------------
InFlight == {j \in registered : jobs[j].status \in {"processing", "cancelling"}}

StatusChanged(j) == jobs'[j].status # jobs[j].status

\* The status GET /status reports for the id, "unknown" when it would be 404.
StatusOf(j) == IF j \in registered THEN jobs[j].status ELSE "unknown"

\* C1: once a job's status is completed, failed, cancelled or timeout, no
\* step of any component changes the status again.
C1_TerminalAbsorbing ==
    [][\A j \in registered :
          jobs[j].status \in TerminalStatuses => ~StatusChanged(j)]_vars

\* C2: every status change is one of the seven pairs of the transition table.
C2_TransitionsInTable ==
    [][\A j \in registered :
          StatusChanged(j) =>
              <<jobs[j].status, jobs'[j].status>> \in TransitionTable]_vars

\* The step with which cancel_job returns True for job j.
CancelAccepts(j) ==
    /\ c_job = j /\ c_pc \in {"L134", "L143"} /\ c_pc' = "idle"

C4_TerminalNotCancellable ==
    [][/\ \A j \in registered :
            (c_job = j /\ c_pc = "L126" /\ c_pc' # c_pc
                /\ jobs[j].status \in TerminalStatuses) =>
                  /\ c_pc' = "idle"
                  /\ c_result' = FALSE
                  /\ c_status' = 409
                  /\ jobs' = jobs
       /\ \A j \in JobIds \ registered :
            (c_pc = "idle" /\ c_count' # c_count /\ c_job' = j) =>
                  /\ c_pc' = "idle"
                  /\ c_result' = FALSE
                  /\ c_status' = 404
                  /\ jobs' = jobs]_vars

C4_Witness ==
    /\ c_pc = "idle" /\ c_result = FALSE /\ c_status = 409
    /\ c_job \in registered
    /\ jobs[c_job].status \in TerminalStatuses

\* The worker has not run a statement of _run_processing for job j.
NotStarted(j) == w_pc[j] \in {"queued", "L157"}

\* C5: a job that was cancelled before a worker started it stays cancelled
\* and has no output file.
C5_CancelledBeforePickupStays ==
    [][\A j \in registered :
          (jobs[j].status = "cancelled" /\ NotStarted(j)) =>
              /\ jobs'[j].status = "cancelled"
              /\ outputs'[j] = "absent"]_vars

\* C6: a job that enters cancelling reaches cancelled.  Only the worker
\* writes cancelled for a job that is cancelling, so a job whose worker has
\* ended is not left in cancelling.
C6_CancellingReachesCancelled ==
    \A j \in registered :
        FutureDone(j) => jobs[j].status # "cancelling"

\* C7: when the deadline has expired, the supervisor moves the job to the
\* status timeout with an error message naming the limit, and only a job
\* that is processing.
C7_DeadlineMovesToTimeout ==
    [][\A j \in registered :
          (s_pc[j] = "L283" /\ s_pc'[j] = "done") =>
              /\ jobs[j].status = "processing"
              /\ jobs'[j].status = "timeout"
              /\ jobs'[j].error = TimeoutMessage(PROCESSING_TIMEOUT)]_vars

\* No thread is at work on job j: its worker and its supervisor have ended
\* and no cancel request for it is being served.
Quiescent(j) ==
    /\ FutureDone(j)
    /\ s_pc[j] = "done"
    /\ ~(c_job = j /\ c_pc # "idle")

\* C8: every registered job reaches a terminal status: when the threads that
\* work on a job have ended, the job is not left pending, processing or
\* cancelling.
C8_EveryJobTerminates ==
    \A j \in registered :
        Quiescent(j) => jobs[j].status \in TerminalStatuses

\* C9: at most MAX_CONCURRENT_JOBS jobs are processing or cancelling.
C9_InFlightBounded == Cardinality(InFlight) <= MAX_CONCURRENT_JOBS

\* ---- properties of the download gate -------------------------------------
\* The step that starts serving a download request for job id j.
DownloadArrives(j) ==
    /\ d_pc = "idle" /\ d_job' = j
    /\ <<d_job, d_pc, d_status>>' # <<d_job, d_pc, d_status>>

\* C10: a download answers 404 for an unknown id, 409 when the status is not
\* completed, 404 when the job is completed and the output file is missing;
\* it answers 200 only after it has read the status completed and found the
\* file.
C10_DownloadGate ==
    [][/\ \A j \in JobIds :
            DownloadArrives(j) =>
                /\ j \notin registered => (d_pc' = "idle" /\ d_status' = 404)
                /\ (j \in registered /\ jobs[j].status # "completed") =>
                       (d_pc' = "idle" /\ d_status' = 409)
                /\ (j \in registered /\ jobs[j].status = "completed") =>
                       (d_pc' = "L249" /\ d_status' = 0)
       /\ (d_pc = "L249" /\ d_pc' # d_pc) =>
                /\ outputs[d_job] = "absent" => (d_pc' = "idle" /\ d_status' = 404)
                /\ outputs[d_job] # "absent" => (d_pc' = "L269" /\ d_status' = 0)
       /\ (d_status' = 200 /\ d_status # 200) =>
                /\ d_pc \in {"L282", "L284"}
                /\ outputs = outputs'
       /\ (d_pc' = "L282" /\ d_pc # "L282") =>
                /\ d_pc = "L269"
                /\ outputs[d_job] = "present"
       /\ (d_pc' = "L284" /\ d_pc # "L284") => d_pc = "L282"
       /\ (d_pc' = "L269" /\ d_pc # "L269") => d_pc = "L249"
       /\ (d_pc' = "L249" /\ d_pc # "L249") => d_pc = "idle"]_vars

C10_Witness ==
    /\ d_pc = "idle" /\ d_status = 200 /\ d_job \in registered
    /\ jobs[d_job].status = "completed"
    /\ outputs[d_job] = "present"

\* ---- properties of the status endpoint -----------------------------------
\* C11: GET /status answers 200 with the job's current status for every
\* registered job, whatever its status, and 404 exactly for an id that is
\* not registered.
C11_StatusAnswers ==
    \A j \in JobIds :
        /\ j \in registered =>
              /\ get_job_status(j).code = 200
              /\ get_job_status(j).body.status = jobs[j].status
        /\ get_job_status(j).code = 404 <=> j \notin registered

\* ---- properties of the files and of the flag -----------------------------
\* C19: an output file exists only for a job that has been completed; a job
\* that is processing (it has not reached line 227) has no output file.
C19_OutputOnlyAfterCompleted ==
    \A j \in registered :
        jobs[j].status = "processing" => outputs[j] = "absent"

\* C20: cancel_requested is false at registration and, once true, stays
\* true.
C20_CancelRequestedMonotonic ==
    [][\A j \in JobIds :
          /\ (j \in registered /\ jobs[j].cancel_requested) =>
                jobs'[j].cancel_requested
          /\ (j \notin registered /\ j \in DOMAIN jobs') =>
                ~jobs'[j].cancel_requested]_vars

C20_Witness ==
    \E j \in registered :
        /\ jobs[j].cancel_requested
        /\ jobs[j].status = "cancelled"
        /\ jobs[j].error = MsgCancelledDuring
        /\ w_pc[j] = "done"

Rejected == u_resp # None /\ u_resp.code # 201

\* C13: a rejected upload registers no job, queues no work and leaves no
\* file in UPLOAD_DIR.
C13_RejectedLeavesNothing ==
    Rejected =>
        /\ registered = {}
        /\ queue = <<>>
        /\ \A j \in JobIds : uploads[j] = "absent"


\* The request passes everything upload_file checks ahead of the capture.
ReachesCapture ==
    /\ RequestBinding(u_req)
    /\ validate_filename(u_req.filename) = "ok"
    /\ validate_file_extension(u_req.filename) = "ok"

\* C14: the capture aborts as soon as the running byte count exceeds
\* MAX_UPLOAD_SIZE, no file is left and the request fails with 413 whose
\* detail says the size exceeds the maximum allowed size; a stream of at
\* most MAX_UPLOAD_SIZE bytes is never rejected for size.
C14_SizeEnforced ==
    u_resp # None =>
        /\ (ReachesCapture /\ u_req.length > MAX_UPLOAD_SIZE) =>
              /\ u_resp.code = 413
              /\ u_resp.body.detail = "exceeds maximum allowed size"
              /\ \A j \in JobIds : uploads[j] = "absent"
              /\ registered = {}
              /\ save_upload_streaming(u_req).size > MAX_UPLOAD_SIZE
              /\ save_upload_streaming(u_req).size <= MAX_UPLOAD_SIZE + CHUNK_SIZE
        /\ u_req.length <= MAX_UPLOAD_SIZE => u_resp.code # 413

\* An oversize stream was cut off before its end and answered with 413.
C14_Witness ==
    /\ u_resp # None
    /\ u_resp.code = 413
    /\ save_upload_streaming(u_req).size < u_req.length

\* The causes of a 400 that the interface names: a filename with "..", a
\* path separator or a null byte, a disallowed extension, an empty file,
\* content that fails the G-code sniff.
NamedInvalidFilename(name) ==
    \/ HasPathCharacters(name)
    \/ \E i \in 1..Len(name) : name[i] = "NUL"

BadRequestCause(req) ==
    \/ NamedInvalidFilename(req.filename)
    \/ validate_file_extension(req.filename) # "ok"
    \/ req.length = 0
    \/ validate_gcode_content(req.patterns) # "ok"

\* C15: POST /upload answers 400 for an invalid filename ("..", path
\* separator, null byte), a disallowed extension, an empty file or content
\* failing the G-code sniff; 413 when the size limit is exceeded; 422 when
\* start_at_layer is negative or extrusion_multiplier is outside 1.0-1.2;
\* and 201 with status "pending" otherwise, the bounds 1.0 and 1.2 included.
C15_UploadStatusCodes ==
    u_resp # None =>
        /\ u_resp.code \in {201, 400, 413, 422}
        /\ u_resp.code = 400 => BadRequestCause(u_req)
        /\ u_resp.code = 413 => u_req.length > MAX_UPLOAD_SIZE
        /\ u_resp.code = 422 => ~RequestBinding(u_req)
        /\ u_resp.code = 201 <=>
              /\ ~BadRequestCause(u_req)
              /\ u_req.length <= MAX_UPLOAD_SIZE
              /\ RequestBinding(u_req)
        /\ u_resp.code = 201 => u_resp.body.status = "pending"

\* A body that is a Problem Details object for the code it is sent with.
IsProblemBody(resp) ==
    /\ {"type", "status"} \subseteq DOMAIN resp.body
    /\ resp.body.type = "about:blank"
    /\ resp.body.status = resp.code

\* C16: every 4xx and 5xx body of the upload and status endpoints is a
\* Problem Details object with type "about:blank" and a status field equal
\* to the HTTP status of the response, the 422 of an out-of-range parameter
\* included.
C16_ErrorsAreProblemDetails ==
    /\ (u_resp # None /\ u_resp.code >= 400) => IsProblemBody(u_resp)
    /\ \A j \in JobIds : get_job_status(j).code >= 400 => IsProblemBody(get_job_status(j))


\* ---- sweeper -----------------------------------------------------------
\* C17: one sweep deletes every regular file directly inside UPLOAD_DIR and
\* OUTPUT_DIR whose modification time is older than FILE_RETENTION_HOURS,
\* deletes no file that is younger, and neither descends into nor deletes a
\* subdirectory.
C17_SweepDeletesOldFilesOnly ==
    [][(deleted_counts = None /\ deleted_counts' # None) =>
          \A d \in Dirs : \A i \in 1..MaxEntries :
              LET e == tree[d].entries[i]
                  after == tree'[d].entries[i]
              IN  /\ (e.kind = "file" /\ e.age > FILE_RETENTION_HOURS) => after = NoEntry
                  /\ (e.kind = "file" /\ e.age < FILE_RETENTION_HOURS) => after = e
                  /\ e.kind = "dir" => after = e
                  /\ e.kind = "none" => after = NoEntry]_vars

\* A pass has removed an old upload and left a subdirectory and a young file.
C17_Witness ==
    /\ deleted_counts # None
    /\ "upload" \in DOMAIN deleted_counts
    /\ deleted_counts["upload"] = 1
    /\ \E i \in 1..MaxEntries : tree["upload"].entries[i].kind = "dir"
    /\ \E i \in 1..MaxEntries :
          /\ tree["output"].entries[i].kind = "file"
          /\ tree["output"].entries[i].age < FILE_RETENTION_HOURS


\* The upload of job j is still to be read: the job is pending or processing
\* and its worker has not left the loop over the input.
UploadInUse(j) ==
    /\ j \in registered
    /\ jobs[j].status \in {"pending", "processing"}
    /\ w_pc[j] \in {"queued", "L157", "L160", "L194", "L196", "L197"}

\* The output of job j is open for writing.
OutputInUse(j) == w_pc[j] = "L197"

\* C18: the sweeper never deletes a file that is in use: an upload that a
\* pending or processing job has yet to finish reading, or an output that a
\* worker is still writing, for every setting of FILE_RETENTION_HOURS and
\* every interleaving of sweeps with uploads and workers.
C18_SweeperSparesFilesInUse ==
    [][\A j \in JobIds :
          /\ (k_pc = <<"upload", j>> /\ uploads[j] = "present" /\ uploads'[j] = "absent")
                => ~UploadInUse(j)
          /\ (k_pc = <<"output", j>> /\ outputs[j] = "present" /\ outputs'[j] = "absent")
                => ~OutputInUse(j)]_vars


\* ---- timestamps ----------------------------------------------------------
\* C21: for every job at every instant created_at <= updated_at; created_at
\* never changes after registration and updated_at never decreases.
C21_TimestampsMonotonic ==
    [][\A j \in registered :
          /\ jobs[j].created_at <= jobs[j].updated_at
          /\ jobs'[j].created_at = jobs[j].created_at
          /\ jobs'[j].updated_at >= jobs[j].updated_at]_vars


\* ---- the registry --------------------------------------------------------
\* C22: register inserts the job in state pending with cancel_requested
\* false and no error; from then on get(id) finds the job at every later
\* instant, and after any status change get(id) reports the new status.
C22_RegisterThenGet ==
    [][\A j \in JobIds :
          /\ (j \notin registered /\ j \in registered') =>
                /\ get_job(j)'.status = "pending"
                /\ get_job(j)'.cancel_requested = FALSE
                /\ get_job(j)'.error = None
          /\ j \in registered =>
                /\ j \in registered'
                /\ get_job(j)' # None
                /\ StatusChanged(j) => get_job(j)'.status = jobs'[j].status]_vars

\* The job is still found after its status has been written three times.
C22_Witness ==
    /\ get_job(1) # None
    /\ get_job(1).status = "completed"
    /\ get_job(1).updated_at >= 3


\* ---- filenames -----------------------------------------------------------
\* C23: sanitize is idempotent, sanitize(sanitize(n)) = sanitize(n) for every
\* filename n, stems longer than the truncation limit included, and for
\* every id two names with equal sanitized forms yield the same upload path.
C23_SanitizeIdempotent ==
    upload_path # None =>
        /\ sanitize_filename(upload_path.safe_filename) = upload_path.safe_filename
        /\ \A n \in SanitizeNames :
              sanitize_filename(n) = sanitize_filename(u_req.filename)
                 => get_upload_path(upload_path.job_id, n) = upload_path


\* C38: for every input name the sanitized filename consists only of
\* characters from [A-Za-z0-9 ._-], is non-empty, has a stem of at most
\* max_length characters followed by the lowercased original extension, and
\* contains no path separator, no ".." segment and no null byte.
SafeNameChars == {"gcode", "GCODE", "txt", " ", ".", "_", "-"}

C38_SanitizedNameSafe ==
    upload_path # None =>
        LET safe == upload_path.safe_filename
            ext == Lower(Suffix(PathName(u_req.filename)))
            cut == Len(safe) - Len(ext)
        IN  /\ safe # <<>>
            /\ \A i \in 1..Len(safe) : safe[i] \in SafeNameChars
            /\ cut >= 0 /\ cut <= MaxStemLen
            /\ SubSeq(safe, cut + 1, Len(safe)) = ext
            /\ ~HasPathCharacters(safe)
            /\ \A i \in 1..Len(safe) : safe[i] # "NUL"


\* ---- request ids ---------------------------------------------------------
\* C24: every response, error responses included, carries an X-Request-ID
\* header; its value is the inbound X-Request-ID when the request had one
\* and a freshly generated id otherwise; concurrent requests never observe
\* each other's request id.
C24_RequestIdEchoed ==
    \A r \in RequestIds :
        /\ rq[r].pc = "sent" =>
              /\ rq[r].header # "absent"
              /\ rq[r].inbound # "absent" => rq[r].header = rq[r].inbound
              /\ rq[r].inbound = "absent" =>
                    \A q \in RequestIds \ {r} :
                        rq[r].header \notin {rq[q].inbound, rq[q].request_id}
        /\ rq[r].seen \in {"none", rq[r].request_id}


C26_CheckAndWriteAtomic ==
    [][\A j \in registered :
          /\ (c_job = j /\ c_pc = "L134" /\ c_pc' = "idle") =>
                jobs[j].status = "pending"
          /\ (c_job = j /\ c_pc = "L143" /\ c_pc' = "idle") =>
                /\ ~NotCancellable(jobs[j].status)
                /\ jobs[j].status # "pending"]_vars

\* The step with which the worker of job j ends.
WorkerEnds(j) == w_pc[j] \notin {"done", "raised"} /\ w_pc'[j] \in {"done", "raised"}

\* C27: an exception raised while the worker runs the processor or does its
\* file input and output is caught by the worker: no worker ends by an
\* exception that escapes _run_processing, and the worker that caught one
\* ends with the job failed, the exception's message as its error and the
\* output file left as it was.
C27_WorkerCatchesExceptions ==
    [][\A j \in registered :
          /\ w_pc'[j] # "raised"
          /\ (w_pc[j] = "L249" /\ WorkerEnds(j)) =>
                /\ jobs'[j].status = "failed"
                /\ jobs'[j].error = MsgProcessorError
                /\ outputs'[j] = outputs[j]]_vars

\* ---- properties of the cancellation checkpoints --------------------------
\* C28: once cancel_requested is true the worker of a processing job stops
\* at its next checkpoint: it writes no line at a checkpoint where the flag
\* is set, and it never marks the job completed while the flag is set.
C28_CancelStopsWorker ==
    [][\A j \in registered :
          /\ line_count'[j] > line_count[j] => ~Checkpoint(j)
          /\ (jobs[j].cancel_requested /\ StatusChanged(j)) =>
                jobs'[j].status # "completed"]_vars

\* The step with which the worker of job j returns after it has seen
\* cancel_requested (the return of line 215 or of line 225).
WorkerReturnsCancelled(j) == w_pc[j] \in {"L204", "L223"} /\ w_pc'[j] = "done"

\* C29: when the worker returns because it saw cancel_requested, the job is
\* cancelled, its error is one of the two cancellation messages and its
\* output file does not exist.
C29_CancelledOnExit ==
    [][\A j \in registered :
          WorkerReturnsCancelled(j) =>
              /\ jobs'[j].status = "cancelled"
              /\ jobs'[j].error \in {MsgCancelled, MsgCancelledDuring}
              /\ outputs'[j] = "absent"]_vars

\* ---- properties of the submission ---------------------------------------
\* The upload file of job j holds the whole stream of the request and the
\* request passed every validation of upload_file.
UploadPersisted(j) ==
    /\ uploads[j] = "present"
    /\ handler[j].written = u_req.length
    /\ UploadOutcome(j, u_req).accepted

\* C30: a job is registered (as pending) only once its upload is persisted
\* and validated, submitted to the pool only once it is registered and only
\* after the 201 response of its upload, and picked up by a worker only from
\* the queue, registered and with its upload file completely written.
C30_SubmissionOrder ==
    [][\A j \in JobIds :
          /\ (j \notin registered /\ j \in registered') =>
                /\ UploadPersisted(j)
                /\ jobs'[j].status = "pending"
                /\ w_pc[j] = "idle"
          /\ (w_pc[j] = "idle" /\ w_pc'[j] # "idle") =>
                /\ w_pc'[j] = "queued"
                /\ j \in registered
                /\ handler[j].resp # None
                /\ handler[j].resp.code = 201
          /\ (w_pc[j] # "L157" /\ w_pc'[j] = "L157") =>
                /\ w_pc[j] = "queued"
                /\ j \in registered
                /\ UploadPersisted(j)
                /\ handler[j].resp # None]_vars

\* A worker has found the upload of job 1 (line 160) while the upload of
\* job 2 is half written.
C30_Witness ==
    /\ w_pc[1] = "L194"
    /\ handler[1].resp # None /\ handler[1].resp.code = 201
    /\ handler[2].pc = "L168" /\ uploads[2] = "partial"

\* ---- properties of the download ------------------------------------------
\* The step with which the download handler removes the upload file of
\* job j (the unlink of line 285 on a file that exists).
DownloadDeletesUpload(j) ==
    /\ d_job = j /\ d_pc = "L284" /\ d_pc' # "L284"
    /\ uploads[j] = "present" /\ uploads'[j] = "absent"

\* The step with which a download is answered with status code.
DownloadAnswers(code) == d_pc' = "idle" /\ d_status' = code /\ <<d_pc, d_status>> # <<d_pc', d_status'>>

\* C31: the download handler removes the upload file only once the 200
\* response of that download is committed; a download that is answered 404
\* or 409 has not reached the cleanup and removes nothing.
C31_CleanupAfterCommit ==
    [][/\ \A j \in JobIds : DownloadDeletesUpload(j) => d_status = 200
       /\ (DownloadAnswers(404) \/ DownloadAnswers(409)) =>
             /\ d_pc \in {"idle", "L249"}
             /\ uploads' = uploads]_vars

\* A step of download_processed_file.
DownloadStep == <<d_job, d_pc, d_status>> # <<d_job', d_pc', d_status'>>

\* C32: no step of the download changes an output file or a job record; an
\* output file disappears only by the sweeper's unlink or by the worker's
\* unlink after it saw the cancellation; and a download of a job that is
\* completed is refused only when its output file is gone.
C32_DownloadLeavesOutput ==
    [][/\ DownloadStep => (outputs' = outputs /\ jobs' = jobs)
       /\ \A j \in JobIds :
            /\ (outputs[j] = "present" /\ outputs'[j] = "absent") =>
                  \/ k_pc = <<"output", j>>
                  \/ w_pc[j] \in {"L204", "L223"}
            /\ (DownloadStep /\ d_job' = j /\ d_pc' = "idle" /\ d_status' # 200
                /\ j \in registered /\ jobs[j].status = "completed") =>
                  outputs[j] = "absent"]_vars

\* A second download of job 1 has passed the stat of the output: the upload
\* was removed by an earlier download (the sweeper spares it while the
\* supervisor waits), the output is still there.
C32_Witness ==
    /\ 1 \in registered /\ jobs[1].status = "completed"
    /\ d_job = 1 /\ d_pc = "L282"
    /\ uploads[1] = "absent" /\ s_pc[1] = "L280"
    /\ outputs[1] = "present"

\* ---- properties of the sweeper's failures ---------------------------------
\* C33: a file that cannot be examined or deleted does not stop the sweep:
\* the pass returns normally, every file that is old enough and has no
\* failure of its own is removed, whatever fails on the other files, and
\* everything else is left in place.
C33_FailingFileIgnored ==
    [][(tree' # tree \/ deleted_counts' # deleted_counts) =>
          /\ ~deleted_counts'.raised
          /\ \A d \in Dirs : \A i \in 1..MaxEntries :
                LET e == tree[d].entries[i]
                IN  IF e.kind = "file" /\ e.fault = "none" /\ e.age > FILE_RETENTION_HOURS
                      THEN tree'[d].entries[i] = NoFaultEntry
                      ELSE tree'[d].entries[i] = e]_vars

\* The files of directory d.
FilesOf(d) == IF d = "upload" THEN uploads ELSE outputs

\* C34: the count of a directory goes up by one exactly with a file that
\* this pass removes from that directory, also when another thread removes
\* the file between the stat and the unlink of the sweeper, and the result
\* has an entry for both directories.
C34_CountsMatchDeletions ==
    [][(deleted_counts # None /\ deleted_counts' # None) =>
          /\ DOMAIN deleted_counts' = Dirs
          /\ \A d \in Dirs :
                deleted_counts'[d] # deleted_counts[d] =>
                    /\ deleted_counts'[d] = deleted_counts[d] + 1
                    /\ \E j \in JobIds :
                          FilesOf(d)[j] = "present" /\ FilesOf(d)'[j] = "absent"]_vars

\* ---- properties of the sweeper thread -------------------------------------
\* C35: at most one sweeper runs sweeps: start_background starts a thread
\* only when no thread it started before is alive, and a thread begins a
\* sweep only while it is the thread the service holds, so not after a
\* stop_background that was called for it has returned.
C35_SingleSweeper ==
    [][\A t \in SweeperThreads :
          /\ (cleanup.threads[t] = "unstarted" /\ cleanup'.threads[t] # "unstarted") =>
                \A u \in SweeperThreads : ~is_alive(u)
          /\ (cleanup.threads[t] = "waiting" /\ cleanup'.threads[t] = "sweeping") =>
                cleanup.thread = t]_vars

\* ---- properties of the metrics --------------------------------------------
\* The jobs whose body is executing: the worker has counted the job in
\* (line 161) and has not ended.
BodiesExecuting ==
    { j \in JobIds : w_pc[j] \notin {"idle", "queued", "L157", "L160", "done", "raised"} }

\* C36: the gauge of active jobs equals the number of job bodies that are
\* executing, whichever way a body ends; it is never negative and is 0 when
\* no worker is running.
C36_GaugeCountsBodies ==
    /\ processing_jobs_active = Cardinality(BodiesExecuting)
    /\ processing_jobs_active >= 0

\* ---- properties of the capture --------------------------------------------
\* min(a, b)
Min(a, b) == IF a < b THEN a ELSE b

\* C37: capturing a stream that is not empty and not longer than
\* MAX_UPLOAD_SIZE leaves at the upload path of the job a file that holds the
\* stream, reports the length of the stream as its size and returns the
\* first min(HEAD_SIZE, length) bytes as head chunk; capturing a stream of
\* no bytes fails with the empty-file error.
C37_CaptureFaithful ==
    capture # None =>
        LET st == u_req.stream
            got == capture.streaming
        IN  /\ (Len(st) >= 1 /\ Len(st) <= MAX_UPLOAD_SIZE) =>
                  /\ got.error = "ok"
                  /\ got.path = get_upload_path(capture.job_id, u_req.filename)
                  /\ got.stored /\ got.file = st
                  /\ got.size = Len(st)
                  /\ got.head_chunk = SubSeq(st, 1, Min(HEAD_SIZE, Len(st)))
                  /\ capture.plain.path = got.path
                  /\ capture.plain.file = st
                  /\ capture.plain.size = Len(st)
                  /\ got.size = CaptureLoop(Len(st), 0).size
            /\ Len(st) = 0 => (got.error = "File is empty" /\ ~got.stored)

\* A stream of exactly MAX_UPLOAD_SIZE bytes, longer than the head chunk, has
\* been captured.
C37_Witness ==
    /\ capture # None
    /\ Len(u_req.stream) = MAX_UPLOAD_SIZE
    /\ capture.streaming.error = "ok"
    /\ Len(capture.streaming.head_chunk) < Len(capture.streaming.file)
    /\ capture.plain.size = MAX_UPLOAD_SIZE


\* ---- path derivation -------------------------------------------------------
\* C39: path derivation is collision-free across jobs: for two jobs with
\* distinct ids and any filenames the upload paths differ and the output
\* paths differ, and no job's output path equals any job's upload path; the
\* output path is the sanitized name with _processed inserted before the
\* extension, prefixed by the id.
C39_PathsCollisionFree ==
    \A i \in JobIds : job_paths[i] # None =>
        /\ \A j \in JobIds : job_paths[j] # None =>
              /\ i # j => /\ job_paths[i].upload_path # job_paths[j].upload_path
                          /\ job_paths[i].output_path # job_paths[j].output_path
              /\ job_paths[i].output_path # job_paths[j].upload_path
        /\ LET safe == sanitize_filename(job_paths[i].filename)
               ext == Suffix(PathName(job_paths[i].filename))
               stem == SubSeq(safe, 1, Len(safe) - Len(ext))
           IN  job_paths[i].output_path =
                   <<"OUTPUT_DIR", "/">> \o job_id_text(i) \o <<"_">>
                       \o stem \o <<"_processed">> \o ext


\* ---- the output a download serves ------------------------------------------
\* C40: a job's status is set to completed only after the worker has written
\* every produced line and closed the output stream, so whenever a download
\* has passed the completed-state gate the file it serves is the whole
\* output and never a partially written one, however downloads interleave
\* with workers, cancels and the timeout supervisor.
C40_CompletedOutputWhole ==
    \A j \in registered :
        /\ jobs[j].status = "completed" => outfile[j] = "whole"
        /\ (d_job = j /\ d_pc \in {"L249", "L269", "L282", "L284"}) => outfile[j] = "whole"
        /\ (d_job = j /\ d_pc = "idle" /\ d_status = 200) => outfile[j] = "whole"

\* A download of job 1 was answered 200 although a cancel had been requested
\* and the timeout supervisor had marked the job failed in the meantime.
C40_Witness ==
    /\ d_job = 1 /\ d_pc = "idle" /\ d_status = 200
    /\ 1 \in registered
    /\ jobs[1].cancel_requested
    /\ jobs[1].status = "failed"
    /\ line_count[1] = MaxLines

====
